---- MODULE Spec2Model ----
\* Rig-and-animation authoring pipeline of "Defender of the Orcish Marches":
\* the Blender generator scripts (generate_*.py) run one after another in one
\* Blender session.  The state is the session's data (bpy.data and the scene)
\* plus the position of the running script; one action per step of main().
\*
\* Conventions
\*   - a datablock name is a record [b |-> base, n |-> k]; k > 0 is Blender's
\*     ".00k" suffix given when the base name is already taken;
\*   - authored angles are given in tenths of a degree and stored (after
\*     math.radians) in 1/10000 radian; offsets are in 1/1000 unit, bone heads
\*     and tails in 1/100 unit;
\*   - a script (generator or export) is started in the session exactly as it
\*     finds it, mode included; the operators called first by clear_scene and
\*     clean_and_export run in Object mode only and raise RuntimeError
\*     otherwise, which ends the script with the session untouched;
\*   - no script leaves Pose mode by itself: between two scripts the person
\*     at the keyboard may go back to Object mode in Blender's interface, a
\*     step of its own (LeavePoseMode) that changes the mode and nothing else.
\*
\* The stand-alone tools read_pose.py and render_animation_frames.py are pure
\* readers of a scene a person has prepared by hand; they are specified on
\* their own (SpecCapture, SpecRender) over scenes drawn from bounded sets.
EXTENDS Integers, Sequences, FiniteSets, TLC

VARIABLES
  bpy,          \* the session: bpy.data collections, pose, animation data, mode, scene
  run,          \* number of runs started so far
  gen,          \* the generator script being run ("" before the first run)
  stage,        \* position of main(): the stage about to execute
  idx,          \* index of the next body part (stage "parts") / group (stage "bind") / clip (stage "tracks")
  clip,         \* index of the next clip to author (stage "anim")
  miskeyed,     \* authoring input: index of the body part grouped under a bone name the skeleton lacks (0 = none)
  MAT,          \* the script's MAT_* globals: material base name -> datablock name
  groups,       \* the groups dict built so far: <<[bone, obj]>> in insertion order
  arm_obj,      \* the armature object of this run
  clip_actions, \* walk_action, attack_action, die_action as far as created
  binds,        \* parent_to_bone calls made in this run: <<[bone, ok]>>
  prev,         \* what is remembered of the session as the previous run left it
  err,          \* exception that ended the run ("" = none)
  fbx,          \* what the export script run after this run's generator wrote
  capture,      \* read_pose.py: the hand-posed skeleton it is run on and what it printed
  render        \* render_animation_frames.py: the scene it is run on and what it did

vars == <<bpy, run, gen, stage, idx, clip, miskeyed, MAT, groups, arm_obj,
          clip_actions, binds, prev, err, fbx, capture, render>>

\* ---------------------------------------------------------------- bounds
\* number of consecutive runs explored in one session
MaxRuns == 2
\* a run's miskeyed body part is one of the first MaxMiskeyed parts
MaxMiskeyed == 2

\* ---------------------------------------------------------------- the generators' authored data
\* generate_ballista.py: what each of its functions does, by function
generate_ballista ==
  [
   \* create_materials: material names in creation order
   create_materials |->
      << "BallistaWood", "BallistaWoodDk", "BallistaBow", "BallistaIron", "BallistaString" >>,
   \* build_ballista: body parts in assembly order, each with the bone key it is grouped under and its primitives
   build_parts |->
      <<
          [name |-> "Ballista", bone |-> "", joined |-> TRUE,
          prims |-> << [name |-> "Deck", kind |-> "Cube", mat |-> "BallistaWood"], [name |-> "Rail_-1", kind |-> "Cube", mat |-> "BallistaWoodDk"], [name |-> "Rail_1", kind |-> "Cube", mat |-> "BallistaWoodDk"], [name |-> "Beam_-0.50", kind |-> "Cube", mat |-> "BallistaWoodDk"], [name |-> "Beam_-0.05", kind |-> "Cube", mat |-> "BallistaWoodDk"], [name |-> "Beam_0.35", kind |-> "Cube", mat |-> "BallistaWoodDk"], [name |-> "Housing_-1", kind |-> "Cube", mat |-> "BallistaWood"], [name |-> "HBand_-1_0.03", kind |-> "Cube", mat |-> "BallistaIron"], [name |-> "HBand_-1_-0.04", kind |-> "Cube", mat |-> "BallistaIron"], [name |-> "TorsionCap_-1", kind |-> "Cylinder", mat |-> "BallistaIron"], [name |-> "Housing_1", kind |-> "Cube", mat |-> "BallistaWood"], [name |-> "HBand_1_0.03", kind |-> "Cube", mat |-> "BallistaIron"], [name |-> "HBand_1_-0.04", kind |-> "Cube", mat |-> "BallistaIron"], [name |-> "TorsionCap_1", kind |-> "Cylinder", mat |-> "BallistaIron"], [name |-> "Arm_-1", kind |-> "Cube", mat |-> "BallistaBow"], [name |-> "ArmTip_-1", kind |-> "Cube", mat |-> "BallistaIron"], [name |-> "Arm_1", kind |-> "Cube", mat |-> "BallistaBow"], [name |-> "ArmTip_1", kind |-> "Cube", mat |-> "BallistaIron"], [name |-> "Bowstring", kind |-> "Cube", mat |-> "BallistaString"], [name |-> "StringWrap_-1", kind |-> "Cube", mat |-> "BallistaString"], [name |-> "StringWrap_1", kind |-> "Cube", mat |-> "BallistaString"], [name |-> "Trough", kind |-> "Cube", mat |-> "BallistaWood"], [name |-> "TroughEdge_-1", kind |-> "Cube", mat |-> "BallistaIron"], [name |-> "TroughEdge_1", kind |-> "Cube", mat |-> "BallistaIron"], [name |-> "Slider", kind |-> "Cube", mat |-> "BallistaIron"], [name |-> "Trigger", kind |-> "Cube", mat |-> "BallistaIron"], [name |-> "CrankPost_-1", kind |-> "Cube", mat |-> "BallistaWood"], [name |-> "CrankPost_1", kind |-> "Cube", mat |-> "BallistaWood"], [name |-> "CrankAxle", kind |-> "Cube", mat |-> "BallistaIron"], [name |-> "CrankHandle_-1", kind |-> "Cylinder", mat |-> "BallistaWood"], [name |-> "CrankHandle_1", kind |-> "Cylinder", mat |-> "BallistaWood"], [name |-> "WinchDrum", kind |-> "Cylinder", mat |-> "BallistaWoodDk"], [name |-> "RopeCoil", kind |-> "Cylinder", mat |-> "BallistaString"], [name |-> "LBracket_-1_-1", kind |-> "Cube", mat |-> "BallistaIron"], [name |-> "LBracket_-1_1", kind |-> "Cube", mat |-> "BallistaIron"], [name |-> "LBracket_1_-1", kind |-> "Cube", mat |-> "BallistaIron"], [name |-> "LBracket_1_1", kind |-> "Cube", mat |-> "BallistaIron"], [name |-> "DeckBand_-0.30", kind |-> "Cube", mat |-> "BallistaIron"], [name |-> "DeckBand_0.10", kind |-> "Cube", mat |-> "BallistaIron"], [name |-> "Stud_-1_-0.50", kind |-> "Cube", mat |-> "BallistaIron"], [name |-> "Stud_-1_-0.20", kind |-> "Cube", mat |-> "BallistaIron"], [name |-> "Stud_-1_0.10", kind |-> "Cube", mat |-> "BallistaIron"], [name |-> "Stud_-1_0.40", kind |-> "Cube", mat |-> "BallistaIron"], [name |-> "Stud_1_-0.50", kind |-> "Cube", mat |-> "BallistaIron"], [name |-> "Stud_1_-0.20", kind |-> "Cube", mat |-> "BallistaIron"], [name |-> "Stud_1_0.10", kind |-> "Cube", mat |-> "BallistaIron"], [name |-> "Stud_1_0.40", kind |-> "Cube", mat |-> "BallistaIron"], [name |-> "RearShield", kind |-> "Cube", mat |-> "BallistaIron"] >>] >>,
   \* main: active-clip handling around track packaging (frame 0 = no frame_set), pose-mode re-entry, camera name
   main |->
      [clear_active |-> FALSE, preview |-> "", preview_frame |-> 0, repose |-> FALSE, final |-> "", final_frame |-> 0, camera |-> "BallistaCamera"]
  ]

\* generate_basic_orc.py: what each of its functions does, by function
generate_basic_orc ==
  [
   \* create_materials: material names in creation order
   create_materials |->
      << "OrcSkin", "OrcSkinDark", "OrcMouth", "OrcEyes", "OrcLeather", "OrcMetal", "OrcWood", "OrcTeeth" >>,
   \* build_body_parts: body parts in assembly order, each with the bone key it is grouped under and its primitives
   build_parts |->
      <<
          [name |-> "Grp_Spine", bone |-> "Spine", joined |-> TRUE,
          prims |-> << [name |-> "Torso", kind |-> "Cube", mat |-> "OrcSkin"], [name |-> "Belly", kind |-> "Cube", mat |-> "OrcSkin"], [name |-> "Belt", kind |-> "Cube", mat |-> "OrcLeather"], [name |-> "Loincloth", kind |-> "Cube", mat |-> "OrcLeather"], [name |-> "Strap", kind |-> "Cube", mat |-> "OrcLeather"] >>],
          [name |-> "Grp_Head", bone |-> "Head", joined |-> TRUE,
          prims |-> << [name |-> "Head", kind |-> "Cube", mat |-> "OrcSkin"], [name |-> "Brow", kind |-> "Cube", mat |-> "OrcSkinDark"], [name |-> "EyeL", kind |-> "Cube", mat |-> "OrcEyes"], [name |-> "EyeR", kind |-> "Cube", mat |-> "OrcEyes"], [name |-> "Mouth", kind |-> "Cube", mat |-> "OrcMouth"], [name |-> "FangL", kind |-> "Cone", mat |-> "OrcTeeth"], [name |-> "FangR", kind |-> "Cone", mat |-> "OrcTeeth"], [name |-> "EarL", kind |-> "Cone", mat |-> "OrcSkinDark"], [name |-> "EarR", kind |-> "Cone", mat |-> "OrcSkinDark"] >>],
          [name |-> "ArmLUpper", bone |-> "L_UpperArm", joined |-> FALSE,
          prims |-> << [name |-> "ArmLUpper", kind |-> "Cube", mat |-> "OrcSkin"] >>],
          [name |-> "Grp_L_ForeArm", bone |-> "L_ForeArm", joined |-> TRUE,
          prims |-> << [name |-> "ArmLLower", kind |-> "Cube", mat |-> "OrcSkin"], [name |-> "HandL", kind |-> "Cube", mat |-> "OrcSkinDark"] >>],
          [name |-> "ArmRUpper", bone |-> "R_UpperArm", joined |-> FALSE,
          prims |-> << [name |-> "ArmRUpper", kind |-> "Cube", mat |-> "OrcSkin"] >>],
          [name |-> "Grp_R_ForeArm", bone |-> "R_ForeArm", joined |-> TRUE,
          prims |-> << [name |-> "ArmRLower", kind |-> "Cube", mat |-> "OrcSkin"], [name |-> "HandR", kind |-> "Cube", mat |-> "OrcSkinDark"], [name |-> "ClubHandle", kind |-> "Cube", mat |-> "OrcWood"], [name |-> "ClubHead", kind |-> "Cube", mat |-> "OrcWood"], [name |-> "ClubBand1", kind |-> "Cube", mat |-> "OrcMetal"], [name |-> "ClubBand2", kind |-> "Cube", mat |-> "OrcMetal"] >>],
          [name |-> "LegLUpper", bone |-> "L_UpperLeg", joined |-> FALSE,
          prims |-> << [name |-> "LegLUpper", kind |-> "Cube", mat |-> "OrcSkin"] >>],
          [name |-> "Grp_L_LowerLeg", bone |-> "L_LowerLeg", joined |-> TRUE,
          prims |-> << [name |-> "LegLLower", kind |-> "Cube", mat |-> "OrcLeather"], [name |-> "FootL", kind |-> "Cube", mat |-> "OrcLeather"] >>],
          [name |-> "LegRUpper", bone |-> "R_UpperLeg", joined |-> FALSE,
          prims |-> << [name |-> "LegRUpper", kind |-> "Cube", mat |-> "OrcSkin"] >>],
          [name |-> "Grp_R_LowerLeg", bone |-> "R_LowerLeg", joined |-> TRUE,
          prims |-> << [name |-> "LegRLower", kind |-> "Cube", mat |-> "OrcLeather"], [name |-> "FootR", kind |-> "Cube", mat |-> "OrcLeather"] >>] >>,
   \* create_armature: add_bone calls in order; head/tail in 1/100 units
   create_armature |->
      [obj |-> "OrcArmature", data |-> "OrcRig",
       bones |-> <<
         [name |-> "Root", head |-> <<0, 0, 33>>, tail |-> <<0, 0, 37>>, parent |-> "", connect |-> FALSE],
         [name |-> "Spine", head |-> <<0, 0, 33>>, tail |-> <<0, 0, 64>>, parent |-> "Root", connect |-> TRUE],
         [name |-> "Head", head |-> <<0, 0, 64>>, tail |-> <<0, 0, 92>>, parent |-> "Spine", connect |-> TRUE],
         [name |-> "L_UpperArm", head |-> <<-19, 0, 61>>, tail |-> <<-28, 0, 59>>, parent |-> "Spine", connect |-> FALSE],
         [name |-> "L_ForeArm", head |-> <<-28, 0, 59>>, tail |-> <<-30, 0, 35>>, parent |-> "L_UpperArm", connect |-> TRUE],
         [name |-> "R_UpperArm", head |-> <<19, 0, 61>>, tail |-> <<28, 0, 59>>, parent |-> "Spine", connect |-> FALSE],
         [name |-> "R_ForeArm", head |-> <<28, 0, 59>>, tail |-> <<30, 0, 35>>, parent |-> "R_UpperArm", connect |-> TRUE],
         [name |-> "L_UpperLeg", head |-> <<-12, 0, 33>>, tail |-> <<-12, 0, 16>>, parent |-> "Root", connect |-> FALSE],
         [name |-> "L_LowerLeg", head |-> <<-12, 0, 16>>, tail |-> <<-12, 0, 3>>, parent |-> "L_UpperLeg", connect |-> TRUE],
         [name |-> "R_UpperLeg", head |-> <<12, 0, 33>>, tail |-> <<12, 0, 16>>, parent |-> "Root", connect |-> FALSE],
         [name |-> "R_LowerLeg", head |-> <<12, 0, 16>>, tail |-> <<12, 0, 3>>, parent |-> "R_UpperLeg", connect |-> TRUE] >>],
   \* create_walk_cycle: keyframes as (frame, set_bone_rot/set_bone_loc calls after reset_pose); degrees x10, offsets x1000
   create_walk_cycle |->
      [name |-> "Walk", creates_animation_data |-> TRUE, interpolation |-> "LINEAR",
       keyframes |-> <<
         [frame |-> 1, overrides |-> <<  >>],
         [frame |-> 7, overrides |-> << [bone |-> "L_UpperLeg", path |-> "rotation_euler", value |-> <<300, 0, 0>>], [bone |-> "L_LowerLeg", path |-> "rotation_euler", value |-> <<-90, 0, 0>>], [bone |-> "R_UpperLeg", path |-> "rotation_euler", value |-> <<-300, 0, 0>>], [bone |-> "R_LowerLeg", path |-> "rotation_euler", value |-> <<0, 0, 0>>], [bone |-> "R_UpperArm", path |-> "rotation_euler", value |-> <<200, 0, 0>>], [bone |-> "R_ForeArm", path |-> "rotation_euler", value |-> <<-80, 0, 0>>], [bone |-> "L_UpperArm", path |-> "rotation_euler", value |-> <<-200, 0, 0>>], [bone |-> "L_ForeArm", path |-> "rotation_euler", value |-> <<0, 0, 0>>], [bone |-> "Root", path |-> "location", value |-> <<0, 0, 20>>], [bone |-> "Spine", path |-> "rotation_euler", value |-> <<0, 0, 30>>] >>],
         [frame |-> 13, overrides |-> <<  >>],
         [frame |-> 19, overrides |-> << [bone |-> "R_UpperLeg", path |-> "rotation_euler", value |-> <<300, 0, 0>>], [bone |-> "R_LowerLeg", path |-> "rotation_euler", value |-> <<-90, 0, 0>>], [bone |-> "L_UpperLeg", path |-> "rotation_euler", value |-> <<-300, 0, 0>>], [bone |-> "L_LowerLeg", path |-> "rotation_euler", value |-> <<0, 0, 0>>], [bone |-> "L_UpperArm", path |-> "rotation_euler", value |-> <<200, 0, 0>>], [bone |-> "L_ForeArm", path |-> "rotation_euler", value |-> <<-80, 0, 0>>], [bone |-> "R_UpperArm", path |-> "rotation_euler", value |-> <<-200, 0, 0>>], [bone |-> "R_ForeArm", path |-> "rotation_euler", value |-> <<0, 0, 0>>], [bone |-> "Root", path |-> "location", value |-> <<0, 0, 20>>], [bone |-> "Spine", path |-> "rotation_euler", value |-> <<0, 0, -30>>] >>],
         [frame |-> 25, overrides |-> <<  >>] >>],
   \* create_attack_anim: keyframes as (frame, set_bone_rot/set_bone_loc calls after reset_pose); degrees x10, offsets x1000
   create_attack_anim |->
      [name |-> "Attack", creates_animation_data |-> FALSE, interpolation |-> "BEZIER",
       keyframes |-> <<
         [frame |-> 1, overrides |-> <<  >>],
         [frame |-> 5, overrides |-> << [bone |-> "R_UpperArm", path |-> "rotation_euler", value |-> <<0, 0, -700>>], [bone |-> "R_ForeArm", path |-> "rotation_euler", value |-> <<-300, 0, 0>>], [bone |-> "Spine", path |-> "rotation_euler", value |-> <<0, 0, -50>>], [bone |-> "Head", path |-> "rotation_euler", value |-> <<0, 0, 0>>] >>],
         [frame |-> 8, overrides |-> << [bone |-> "R_UpperArm", path |-> "rotation_euler", value |-> <<0, 0, -850>>], [bone |-> "R_ForeArm", path |-> "rotation_euler", value |-> <<-400, 0, 0>>], [bone |-> "Spine", path |-> "rotation_euler", value |-> <<-50, 0, -80>>], [bone |-> "Head", path |-> "rotation_euler", value |-> <<50, 0, 0>>] >>],
         [frame |-> 11, overrides |-> << [bone |-> "R_UpperArm", path |-> "rotation_euler", value |-> <<150, 0, 300>>], [bone |-> "R_ForeArm", path |-> "rotation_euler", value |-> <<200, 0, 0>>], [bone |-> "Spine", path |-> "rotation_euler", value |-> <<80, 0, 50>>], [bone |-> "Head", path |-> "rotation_euler", value |-> <<-50, 0, 0>>], [bone |-> "Root", path |-> "location", value |-> <<0, -20, -30>>] >>],
         [frame |-> 14, overrides |-> << [bone |-> "R_UpperArm", path |-> "rotation_euler", value |-> <<100, 0, 250>>], [bone |-> "R_ForeArm", path |-> "rotation_euler", value |-> <<150, 0, 0>>], [bone |-> "Spine", path |-> "rotation_euler", value |-> <<50, 0, 30>>], [bone |-> "Root", path |-> "location", value |-> <<0, -20, -20>>] >>],
         [frame |-> 20, overrides |-> <<  >>] >>],
   \* create_die_anim: keyframes as (frame, set_bone_rot/set_bone_loc calls after reset_pose); degrees x10, offsets x1000
   create_die_anim |->
      [name |-> "Die", creates_animation_data |-> FALSE, interpolation |-> "BEZIER",
       keyframes |-> <<
         [frame |-> 1, overrides |-> <<  >>],
         [frame |-> 6, overrides |-> << [bone |-> "Spine", path |-> "rotation_euler", value |-> <<150, 0, 0>>], [bone |-> "Head", path |-> "rotation_euler", value |-> <<100, 0, 50>>], [bone |-> "R_UpperArm", path |-> "rotation_euler", value |-> <<100, 0, 200>>], [bone |-> "L_UpperArm", path |-> "rotation_euler", value |-> <<100, 0, -200>>], [bone |-> "Root", path |-> "location", value |-> <<0, -20, 0>>] >>],
         [frame |-> 12, overrides |-> << [bone |-> "Spine", path |-> "rotation_euler", value |-> <<-200, 0, 30>>], [bone |-> "Head", path |-> "rotation_euler", value |-> <<-150, 0, -50>>], [bone |-> "R_UpperArm", path |-> "rotation_euler", value |-> <<-200, 0, 300>>], [bone |-> "R_ForeArm", path |-> "rotation_euler", value |-> <<-200, 0, 0>>], [bone |-> "L_UpperArm", path |-> "rotation_euler", value |-> <<-200, 0, -300>>], [bone |-> "L_ForeArm", path |-> "rotation_euler", value |-> <<-200, 0, 0>>], [bone |-> "L_UpperLeg", path |-> "rotation_euler", value |-> <<-200, 0, 0>>], [bone |-> "R_UpperLeg", path |-> "rotation_euler", value |-> <<-200, 0, 0>>], [bone |-> "Root", path |-> "location", value |-> <<0, -50, 50>>] >>],
         [frame |-> 20, overrides |-> << [bone |-> "Spine", path |-> "rotation_euler", value |-> <<-500, 0, 50>>], [bone |-> "Head", path |-> "rotation_euler", value |-> <<-300, 0, -100>>], [bone |-> "R_UpperArm", path |-> "rotation_euler", value |-> <<-400, 0, 450>>], [bone |-> "R_ForeArm", path |-> "rotation_euler", value |-> <<-300, 0, 0>>], [bone |-> "L_UpperArm", path |-> "rotation_euler", value |-> <<-400, 0, -450>>], [bone |-> "L_ForeArm", path |-> "rotation_euler", value |-> <<-300, 0, 0>>], [bone |-> "L_UpperLeg", path |-> "rotation_euler", value |-> <<-500, 0, 0>>], [bone |-> "R_UpperLeg", path |-> "rotation_euler", value |-> <<-500, 0, 0>>], [bone |-> "Root", path |-> "location", value |-> <<0, -200, 150>>] >>],
         [frame |-> 30, overrides |-> << [bone |-> "Spine", path |-> "rotation_euler", value |-> <<-800, 0, 50>>], [bone |-> "Head", path |-> "rotation_euler", value |-> <<-400, 0, -150>>], [bone |-> "R_UpperArm", path |-> "rotation_euler", value |-> <<-300, 0, 600>>], [bone |-> "R_ForeArm", path |-> "rotation_euler", value |-> <<-200, 0, 0>>], [bone |-> "L_UpperArm", path |-> "rotation_euler", value |-> <<-300, 0, -600>>], [bone |-> "L_ForeArm", path |-> "rotation_euler", value |-> <<-200, 0, 0>>], [bone |-> "L_UpperLeg", path |-> "rotation_euler", value |-> <<-800, 0, 0>>], [bone |-> "R_UpperLeg", path |-> "rotation_euler", value |-> <<-800, 0, 0>>], [bone |-> "Root", path |-> "location", value |-> <<0, -350, 300>>] >>] >>],
   \* main: active-clip handling around track packaging (frame 0 = no frame_set), pose-mode re-entry, camera name
   main |->
      [clear_active |-> TRUE, preview |-> "", preview_frame |-> 0, repose |-> FALSE, final |-> "", final_frame |-> 0, camera |-> "OrcCamera"]
  ]

\* generate_bow_orc.py: what each of its functions does, by function
generate_bow_orc ==
  [
   \* create_materials: material names in creation order
   create_materials |->
      << "OrcSkin", "OrcSkinDark", "OrcMouth", "OrcEyes", "OrcLeather", "OrcMetal", "OrcWood", "OrcTeeth", "OrcString" >>,
   \* build_body_parts: body parts in assembly order, each with the bone key it is grouped under and its primitives
   build_parts |->
      <<
          [name |-> "Grp_Spine", bone |-> "Spine", joined |-> TRUE,
          prims |-> << [name |-> "Torso", kind |-> "Cube", mat |-> "OrcSkin"], [name |-> "Belly", kind |-> "Cube", mat |-> "OrcSkin"], [name |-> "Belt", kind |-> "Cube", mat |-> "OrcLeather"], [name |-> "Loincloth", kind |-> "Cube", mat |-> "OrcLeather"], [name |-> "Strap", kind |-> "Cube", mat |-> "OrcLeather"], [name |-> "QuiverStrap", kind |-> "Cube", mat |-> "OrcLeather"], [name |-> "Quiver", kind |-> "Cylinder", mat |-> "OrcLeather"], [name |-> "QuiverArrow1", kind |-> "Cone", mat |-> "OrcMetal"], [name |-> "QuiverArrow2", kind |-> "Cone", mat |-> "OrcMetal"], [name |-> "QuiverArrow3", kind |-> "Cone", mat |-> "OrcMetal"], [name |-> "QuiverShaft1", kind |-> "Cube", mat |-> "OrcWood"], [name |-> "QuiverShaft2", kind |-> "Cube", mat |-> "OrcWood"], [name |-> "QuiverShaft3", kind |-> "Cube", mat |-> "OrcWood"] >>],
          [name |-> "Grp_Head", bone |-> "Head", joined |-> TRUE,
          prims |-> << [name |-> "Head", kind |-> "Cube", mat |-> "OrcSkin"], [name |-> "Brow", kind |-> "Cube", mat |-> "OrcSkinDark"], [name |-> "EyeL", kind |-> "Cube", mat |-> "OrcEyes"], [name |-> "EyeR", kind |-> "Cube", mat |-> "OrcEyes"], [name |-> "Mouth", kind |-> "Cube", mat |-> "OrcMouth"], [name |-> "FangL", kind |-> "Cone", mat |-> "OrcTeeth"], [name |-> "FangR", kind |-> "Cone", mat |-> "OrcTeeth"], [name |-> "EarL", kind |-> "Cone", mat |-> "OrcSkinDark"], [name |-> "EarR", kind |-> "Cone", mat |-> "OrcSkinDark"] >>],
          [name |-> "ArmLUpper", bone |-> "L_UpperArm", joined |-> FALSE,
          prims |-> << [name |-> "ArmLUpper", kind |-> "Cube", mat |-> "OrcSkin"] >>],
          [name |-> "Grp_L_ForeArm", bone |-> "L_ForeArm", joined |-> TRUE,
          prims |-> << [name |-> "ArmLLower", kind |-> "Cube", mat |-> "OrcSkin"], [name |-> "HandL", kind |-> "Cube", mat |-> "OrcSkinDark"], [name |-> "BowGrip", kind |-> "Cube", mat |-> "OrcWood"], [name |-> "BowFarLimb", kind |-> "Cube", mat |-> "OrcWood"], [name |-> "BowNearLimb", kind |-> "Cube", mat |-> "OrcWood"], [name |-> "BowFarTip", kind |-> "Cube", mat |-> "OrcWood"], [name |-> "BowNearTip", kind |-> "Cube", mat |-> "OrcWood"], [name |-> "BowString", kind |-> "Cube", mat |-> "OrcString"] >>],
          [name |-> "ArmRUpper", bone |-> "R_UpperArm", joined |-> FALSE,
          prims |-> << [name |-> "ArmRUpper", kind |-> "Cube", mat |-> "OrcSkin"] >>],
          [name |-> "Grp_R_ForeArm", bone |-> "R_ForeArm", joined |-> TRUE,
          prims |-> << [name |-> "ArmRLower", kind |-> "Cube", mat |-> "OrcSkin"], [name |-> "HandR", kind |-> "Cube", mat |-> "OrcSkinDark"], [name |-> "ArrowShaft", kind |-> "Cube", mat |-> "OrcWood"], [name |-> "ArrowHead", kind |-> "Cone", mat |-> "OrcMetal"] >>],
          [name |-> "LegLUpper", bone |-> "L_UpperLeg", joined |-> FALSE,
          prims |-> << [name |-> "LegLUpper", kind |-> "Cube", mat |-> "OrcSkin"] >>],
          [name |-> "Grp_L_LowerLeg", bone |-> "L_LowerLeg", joined |-> TRUE,
          prims |-> << [name |-> "LegLLower", kind |-> "Cube", mat |-> "OrcLeather"], [name |-> "FootL", kind |-> "Cube", mat |-> "OrcLeather"] >>],
          [name |-> "LegRUpper", bone |-> "R_UpperLeg", joined |-> FALSE,
          prims |-> << [name |-> "LegRUpper", kind |-> "Cube", mat |-> "OrcSkin"] >>],
          [name |-> "Grp_R_LowerLeg", bone |-> "R_LowerLeg", joined |-> TRUE,
          prims |-> << [name |-> "LegRLower", kind |-> "Cube", mat |-> "OrcLeather"], [name |-> "FootR", kind |-> "Cube", mat |-> "OrcLeather"] >>] >>,
   \* create_armature: add_bone calls in order; head/tail in 1/100 units
   create_armature |->
      [obj |-> "OrcArmature", data |-> "OrcRig",
       bones |-> <<
         [name |-> "Root", head |-> <<0, 0, 33>>, tail |-> <<0, 0, 37>>, parent |-> "", connect |-> FALSE],
         [name |-> "Spine", head |-> <<0, 0, 33>>, tail |-> <<0, 0, 64>>, parent |-> "Root", connect |-> TRUE],
         [name |-> "Head", head |-> <<0, 0, 64>>, tail |-> <<0, 0, 92>>, parent |-> "Spine", connect |-> TRUE],
         [name |-> "L_UpperArm", head |-> <<-19, 0, 61>>, tail |-> <<-28, 0, 59>>, parent |-> "Spine", connect |-> FALSE],
         [name |-> "L_ForeArm", head |-> <<-28, 0, 59>>, tail |-> <<-30, 0, 35>>, parent |-> "L_UpperArm", connect |-> TRUE],
         [name |-> "R_UpperArm", head |-> <<19, 0, 61>>, tail |-> <<28, 0, 59>>, parent |-> "Spine", connect |-> FALSE],
         [name |-> "R_ForeArm", head |-> <<28, 0, 59>>, tail |-> <<30, 0, 35>>, parent |-> "R_UpperArm", connect |-> TRUE],
         [name |-> "L_UpperLeg", head |-> <<-12, 0, 33>>, tail |-> <<-12, 0, 16>>, parent |-> "Root", connect |-> FALSE],
         [name |-> "L_LowerLeg", head |-> <<-12, 0, 16>>, tail |-> <<-12, 0, 3>>, parent |-> "L_UpperLeg", connect |-> TRUE],
         [name |-> "R_UpperLeg", head |-> <<12, 0, 33>>, tail |-> <<12, 0, 16>>, parent |-> "Root", connect |-> FALSE],
         [name |-> "R_LowerLeg", head |-> <<12, 0, 16>>, tail |-> <<12, 0, 3>>, parent |-> "R_UpperLeg", connect |-> TRUE] >>],
   \* create_walk_cycle: keyframes as (frame, set_bone_rot/set_bone_loc calls after reset_pose); degrees x10, offsets x1000
   create_walk_cycle |->
      [name |-> "Walk", creates_animation_data |-> TRUE, interpolation |-> "LINEAR",
       keyframes |-> <<
         [frame |-> 1, overrides |-> <<  >>],
         [frame |-> 7, overrides |-> << [bone |-> "L_UpperLeg", path |-> "rotation_euler", value |-> <<300, 0, 0>>], [bone |-> "L_LowerLeg", path |-> "rotation_euler", value |-> <<-90, 0, 0>>], [bone |-> "R_UpperLeg", path |-> "rotation_euler", value |-> <<-300, 0, 0>>], [bone |-> "R_LowerLeg", path |-> "rotation_euler", value |-> <<0, 0, 0>>], [bone |-> "R_UpperArm", path |-> "rotation_euler", value |-> <<200, 0, 0>>], [bone |-> "R_ForeArm", path |-> "rotation_euler", value |-> <<-80, 0, 0>>], [bone |-> "L_UpperArm", path |-> "rotation_euler", value |-> <<-200, 0, 0>>], [bone |-> "L_ForeArm", path |-> "rotation_euler", value |-> <<0, 0, 0>>], [bone |-> "Root", path |-> "location", value |-> <<0, 0, 20>>], [bone |-> "Spine", path |-> "rotation_euler", value |-> <<0, 0, 30>>] >>],
         [frame |-> 13, overrides |-> <<  >>],
         [frame |-> 19, overrides |-> << [bone |-> "R_UpperLeg", path |-> "rotation_euler", value |-> <<300, 0, 0>>], [bone |-> "R_LowerLeg", path |-> "rotation_euler", value |-> <<-90, 0, 0>>], [bone |-> "L_UpperLeg", path |-> "rotation_euler", value |-> <<-300, 0, 0>>], [bone |-> "L_LowerLeg", path |-> "rotation_euler", value |-> <<0, 0, 0>>], [bone |-> "L_UpperArm", path |-> "rotation_euler", value |-> <<200, 0, 0>>], [bone |-> "L_ForeArm", path |-> "rotation_euler", value |-> <<-80, 0, 0>>], [bone |-> "R_UpperArm", path |-> "rotation_euler", value |-> <<-200, 0, 0>>], [bone |-> "R_ForeArm", path |-> "rotation_euler", value |-> <<0, 0, 0>>], [bone |-> "Root", path |-> "location", value |-> <<0, 0, 20>>], [bone |-> "Spine", path |-> "rotation_euler", value |-> <<0, 0, -30>>] >>],
         [frame |-> 25, overrides |-> <<  >>] >>],
   \* create_attack_anim: keyframes as (frame, set_bone_rot/set_bone_loc calls after reset_pose); degrees x10, offsets x1000
   create_attack_anim |->
      [name |-> "Attack", creates_animation_data |-> FALSE, interpolation |-> "BEZIER",
       keyframes |-> <<
         [frame |-> 1, overrides |-> <<  >>],
         [frame |-> 3, overrides |-> << [bone |-> "Root", path |-> "rotation_euler", value |-> <<0, 450, 0>>], [bone |-> "Head", path |-> "rotation_euler", value |-> <<0, -450, 0>>], [bone |-> "L_UpperArm", path |-> "rotation_euler", value |-> <<0, 0, 300>>], [bone |-> "L_ForeArm", path |-> "rotation_euler", value |-> <<0, 450, 350>>], [bone |-> "R_UpperArm", path |-> "rotation_euler", value |-> <<-250, 0, -100>>], [bone |-> "R_ForeArm", path |-> "rotation_euler", value |-> <<-150, 450, 0>>] >>],
         [frame |-> 6, overrides |-> << [bone |-> "Root", path |-> "rotation_euler", value |-> <<0, 900, 0>>], [bone |-> "Head", path |-> "rotation_euler", value |-> <<0, -900, 0>>], [bone |-> "L_UpperArm", path |-> "rotation_euler", value |-> <<0, 0, 450>>], [bone |-> "L_ForeArm", path |-> "rotation_euler", value |-> <<0, 900, 750>>], [bone |-> "R_UpperArm", path |-> "rotation_euler", value |-> <<-500, 0, -300>>], [bone |-> "R_ForeArm", path |-> "rotation_euler", value |-> <<-200, 900, 0>>] >>],
         [frame |-> 9, overrides |-> << [bone |-> "Root", path |-> "rotation_euler", value |-> <<0, 900, 0>>], [bone |-> "Head", path |-> "rotation_euler", value |-> <<0, -900, 0>>], [bone |-> "L_UpperArm", path |-> "rotation_euler", value |-> <<0, 0, 450>>], [bone |-> "L_ForeArm", path |-> "rotation_euler", value |-> <<0, 900, 750>>], [bone |-> "R_UpperArm", path |-> "rotation_euler", value |-> <<50, 0, -500>>], [bone |-> "R_ForeArm", path |-> "rotation_euler", value |-> <<-350, 900, 0>>] >>],
         [frame |-> 12, overrides |-> << [bone |-> "Root", path |-> "rotation_euler", value |-> <<-30, 900, 0>>], [bone |-> "Head", path |-> "rotation_euler", value |-> <<30, -900, 0>>], [bone |-> "L_UpperArm", path |-> "rotation_euler", value |-> <<0, 0, 450>>], [bone |-> "L_ForeArm", path |-> "rotation_euler", value |-> <<0, 900, 750>>], [bone |-> "R_UpperArm", path |-> "rotation_euler", value |-> <<250, 0, -650>>], [bone |-> "R_ForeArm", path |-> "rotation_euler", value |-> <<-750, 900, 0>>] >>],
         [frame |-> 14, overrides |-> << [bone |-> "Root", path |-> "rotation_euler", value |-> <<0, 900, 0>>], [bone |-> "Head", path |-> "rotation_euler", value |-> <<0, -900, 0>>], [bone |-> "L_UpperArm", path |-> "rotation_euler", value |-> <<0, 0, 430>>], [bone |-> "L_ForeArm", path |-> "rotation_euler", value |-> <<0, 900, 730>>], [bone |-> "R_UpperArm", path |-> "rotation_euler", value |-> <<-50, 0, -250>>], [bone |-> "R_ForeArm", path |-> "rotation_euler", value |-> <<-50, 450, 0>>] >>],
         [frame |-> 18, overrides |-> << [bone |-> "Root", path |-> "rotation_euler", value |-> <<0, 150, 0>>], [bone |-> "Head", path |-> "rotation_euler", value |-> <<0, -120, 0>>], [bone |-> "L_UpperArm", path |-> "rotation_euler", value |-> <<0, 0, 100>>], [bone |-> "L_ForeArm", path |-> "rotation_euler", value |-> <<0, 150, 100>>], [bone |-> "R_UpperArm", path |-> "rotation_euler", value |-> <<250, 0, -500>>], [bone |-> "R_ForeArm", path |-> "rotation_euler", value |-> <<-550, 0, 0>>] >>],
         [frame |-> 21, overrides |-> << [bone |-> "Root", path |-> "rotation_euler", value |-> <<0, 30, 0>>], [bone |-> "R_UpperArm", path |-> "rotation_euler", value |-> <<80, 0, -150>>], [bone |-> "R_ForeArm", path |-> "rotation_euler", value |-> <<-100, 0, 0>>] >>],
         [frame |-> 24, overrides |-> <<  >>] >>],
   \* create_die_anim: keyframes as (frame, set_bone_rot/set_bone_loc calls after reset_pose); degrees x10, offsets x1000
   create_die_anim |->
      [name |-> "Die", creates_animation_data |-> FALSE, interpolation |-> "BEZIER",
       keyframes |-> <<
         [frame |-> 1, overrides |-> <<  >>],
         [frame |-> 6, overrides |-> << [bone |-> "Spine", path |-> "rotation_euler", value |-> <<150, 0, 0>>], [bone |-> "Head", path |-> "rotation_euler", value |-> <<100, 0, 50>>], [bone |-> "R_UpperArm", path |-> "rotation_euler", value |-> <<100, 0, 200>>], [bone |-> "L_UpperArm", path |-> "rotation_euler", value |-> <<100, 0, -200>>], [bone |-> "Root", path |-> "location", value |-> <<0, -20, 0>>] >>],
         [frame |-> 12, overrides |-> << [bone |-> "Spine", path |-> "rotation_euler", value |-> <<-200, 0, 30>>], [bone |-> "Head", path |-> "rotation_euler", value |-> <<-150, 0, -50>>], [bone |-> "R_UpperArm", path |-> "rotation_euler", value |-> <<-200, 0, 300>>], [bone |-> "R_ForeArm", path |-> "rotation_euler", value |-> <<-200, 0, 0>>], [bone |-> "L_UpperArm", path |-> "rotation_euler", value |-> <<-200, 0, -300>>], [bone |-> "L_ForeArm", path |-> "rotation_euler", value |-> <<-200, 0, 0>>], [bone |-> "L_UpperLeg", path |-> "rotation_euler", value |-> <<-200, 0, 0>>], [bone |-> "R_UpperLeg", path |-> "rotation_euler", value |-> <<-200, 0, 0>>], [bone |-> "Root", path |-> "location", value |-> <<0, -50, 50>>] >>],
         [frame |-> 20, overrides |-> << [bone |-> "Spine", path |-> "rotation_euler", value |-> <<-500, 0, 50>>], [bone |-> "Head", path |-> "rotation_euler", value |-> <<-300, 0, -100>>], [bone |-> "R_UpperArm", path |-> "rotation_euler", value |-> <<-400, 0, 450>>], [bone |-> "R_ForeArm", path |-> "rotation_euler", value |-> <<-300, 0, 0>>], [bone |-> "L_UpperArm", path |-> "rotation_euler", value |-> <<-400, 0, -450>>], [bone |-> "L_ForeArm", path |-> "rotation_euler", value |-> <<-300, 0, 0>>], [bone |-> "L_UpperLeg", path |-> "rotation_euler", value |-> <<-500, 0, 0>>], [bone |-> "R_UpperLeg", path |-> "rotation_euler", value |-> <<-500, 0, 0>>], [bone |-> "Root", path |-> "location", value |-> <<0, -200, 150>>] >>],
         [frame |-> 30, overrides |-> << [bone |-> "Spine", path |-> "rotation_euler", value |-> <<-800, 0, 50>>], [bone |-> "Head", path |-> "rotation_euler", value |-> <<-400, 0, -150>>], [bone |-> "R_UpperArm", path |-> "rotation_euler", value |-> <<-300, 0, 600>>], [bone |-> "R_ForeArm", path |-> "rotation_euler", value |-> <<-200, 0, 0>>], [bone |-> "L_UpperArm", path |-> "rotation_euler", value |-> <<-300, 0, -600>>], [bone |-> "L_ForeArm", path |-> "rotation_euler", value |-> <<-200, 0, 0>>], [bone |-> "L_UpperLeg", path |-> "rotation_euler", value |-> <<-800, 0, 0>>], [bone |-> "R_UpperLeg", path |-> "rotation_euler", value |-> <<-800, 0, 0>>], [bone |-> "Root", path |-> "location", value |-> <<0, -350, 300>>] >>] >>],
   \* main: active-clip handling around track packaging (frame 0 = no frame_set), pose-mode re-entry, camera name
   main |->
      [clear_active |-> TRUE, preview |-> "", preview_frame |-> 0, repose |-> FALSE, final |-> "", final_frame |-> 0, camera |-> "OrcCamera"]
  ]

\* generate_crossbowman.py: what each of its functions does, by function
generate_crossbowman ==
  [
   \* create_materials: material names in creation order
   create_materials |->
      << "XbowSkin", "XbowSkinDark", "XbowHair", "XbowEyes", "XbowMouth", "XbowTunic", "XbowTunicDk", "XbowVest", "XbowBelt", "XbowLeather", "XbowBoots", "XbowMetal", "XbowWood", "XbowString" >>,
   \* build_body_parts: body parts in assembly order, each with the bone key it is grouped under and its primitives
   build_parts |->
      <<
          [name |-> "Grp_Spine", bone |-> "Spine", joined |-> TRUE,
          prims |-> << [name |-> "Torso", kind |-> "Cube", mat |-> "XbowSkin"], [name |-> "Tunic", kind |-> "Cube", mat |-> "XbowTunic"], [name |-> "LeatherVest", kind |-> "Cube", mat |-> "XbowVest"], [name |-> "VestLacing", kind |-> "Cube", mat |-> "XbowLeather"], [name |-> "TunicSkirt", kind |-> "Cube", mat |-> "XbowTunic"], [name |-> "Belt", kind |-> "Cube", mat |-> "XbowBelt"], [name |-> "BeltBuckle", kind |-> "Cube", mat |-> "XbowMetal"], [name |-> "BoltQuiver", kind |-> "Cube", mat |-> "XbowLeather"], [name |-> "QuiverStrap", kind |-> "Cube", mat |-> "XbowLeather"], [name |-> "BoltTip1", kind |-> "Cone", mat |-> "XbowMetal"], [name |-> "BoltTip2", kind |-> "Cone", mat |-> "XbowMetal"], [name |-> "BoltTip3", kind |-> "Cone", mat |-> "XbowMetal"], [name |-> "BoltShaft1", kind |-> "Cube", mat |-> "XbowWood"], [name |-> "BoltShaft2", kind |-> "Cube", mat |-> "XbowWood"], [name |-> "BoltShaft3", kind |-> "Cube", mat |-> "XbowWood"] >>],
          [name |-> "Grp_Head", bone |-> "Head", joined |-> TRUE,
          prims |-> << [name |-> "Head", kind |-> "Cube", mat |-> "XbowSkin"], [name |-> "HairBack", kind |-> "Cube", mat |-> "XbowHair"], [name |-> "LeatherCap", kind |-> "Cube", mat |-> "XbowVest"], [name |-> "CapBrim", kind |-> "Cube", mat |-> "XbowLeather"], [name |-> "EyeL", kind |-> "Cube", mat |-> "XbowEyes"], [name |-> "EyeR", kind |-> "Cube", mat |-> "XbowEyes"], [name |-> "Nose", kind |-> "Cube", mat |-> "XbowSkinDark"], [name |-> "Mouth", kind |-> "Cube", mat |-> "XbowMouth"], [name |-> "EarL", kind |-> "Cube", mat |-> "XbowSkinDark"], [name |-> "EarR", kind |-> "Cube", mat |-> "XbowSkinDark"] >>],
          [name |-> "Grp_L_UpperArm", bone |-> "L_UpperArm", joined |-> TRUE,
          prims |-> << [name |-> "ArmLU", kind |-> "Cube", mat |-> "XbowTunic"], [name |-> "ShoulderL", kind |-> "Cube", mat |-> "XbowVest"] >>],
          [name |-> "Grp_L_ForeArm", bone |-> "L_ForeArm", joined |-> TRUE,
          prims |-> << [name |-> "ArmLL", kind |-> "Cube", mat |-> "XbowSkin"], [name |-> "BracerL", kind |-> "Cube", mat |-> "XbowLeather"] >>],
          [name |-> "HandL", bone |-> "L_Hand", joined |-> FALSE,
          prims |-> << [name |-> "HandL", kind |-> "Cube", mat |-> "XbowSkinDark"] >>],
          [name |-> "Grp_R_UpperArm", bone |-> "R_UpperArm", joined |-> TRUE,
          prims |-> << [name |-> "ArmRU", kind |-> "Cube", mat |-> "XbowTunic"], [name |-> "ShoulderR", kind |-> "Cube", mat |-> "XbowVest"] >>],
          [name |-> "Grp_R_ForeArm", bone |-> "R_ForeArm", joined |-> TRUE,
          prims |-> << [name |-> "ArmRL", kind |-> "Cube", mat |-> "XbowSkin"], [name |-> "BracerR", kind |-> "Cube", mat |-> "XbowLeather"] >>],
          [name |-> "Grp_R_Hand", bone |-> "R_Hand", joined |-> TRUE,
          prims |-> << [name |-> "HandR", kind |-> "Cube", mat |-> "XbowSkinDark"], [name |-> "XbowStock", kind |-> "Cube", mat |-> "XbowWood"], [name |-> "XbowButt", kind |-> "Cube", mat |-> "XbowWood"], [name |-> "XbowProd", kind |-> "Cube", mat |-> "XbowMetal"], [name |-> "ProdTipL", kind |-> "Cube", mat |-> "XbowMetal"], [name |-> "ProdTipR", kind |-> "Cube", mat |-> "XbowMetal"], [name |-> "XbowString", kind |-> "Cube", mat |-> "XbowString"], [name |-> "BoltShaft", kind |-> "Cylinder", mat |-> "XbowWood"], [name |-> "BoltHead", kind |-> "Cone", mat |-> "XbowMetal"], [name |-> "BoltFletch", kind |-> "Cube", mat |-> "XbowLeather"], [name |-> "Trigger", kind |-> "Cube", mat |-> "XbowMetal"], [name |-> "TriggerGuard", kind |-> "Cube", mat |-> "XbowMetal"] >>],
          [name |-> "LegLU", bone |-> "L_UpperLeg", joined |-> FALSE,
          prims |-> << [name |-> "LegLU", kind |-> "Cube", mat |-> "XbowTunicDk"] >>],
          [name |-> "Grp_L_LowerLeg", bone |-> "L_LowerLeg", joined |-> TRUE,
          prims |-> << [name |-> "LegLL", kind |-> "Cube", mat |-> "XbowSkin"], [name |-> "BootL", kind |-> "Cube", mat |-> "XbowBoots"] >>],
          [name |-> "LegRU", bone |-> "R_UpperLeg", joined |-> FALSE,
          prims |-> << [name |-> "LegRU", kind |-> "Cube", mat |-> "XbowTunicDk"] >>],
          [name |-> "Grp_R_LowerLeg", bone |-> "R_LowerLeg", joined |-> TRUE,
          prims |-> << [name |-> "LegRL", kind |-> "Cube", mat |-> "XbowSkin"], [name |-> "BootR", kind |-> "Cube", mat |-> "XbowBoots"] >>] >>,
   \* create_armature: add_bone calls in order; head/tail in 1/100 units
   create_armature |->
      [obj |-> "CrossbowmanArmature", data |-> "CrossbowmanRig",
       bones |-> <<
         [name |-> "Root", head |-> <<0, 0, 26>>, tail |-> <<0, 0, 30>>, parent |-> "", connect |-> FALSE],
         [name |-> "Spine", head |-> <<0, 0, 26>>, tail |-> <<0, 0, 52>>, parent |-> "Root", connect |-> TRUE],
         [name |-> "Head", head |-> <<0, 0, 52>>, tail |-> <<0, 0, 70>>, parent |-> "Spine", connect |-> TRUE],
         [name |-> "L_UpperArm", head |-> <<-12, 0, 50>>, tail |-> <<-16, 0, 46>>, parent |-> "Spine", connect |-> FALSE],
         [name |-> "L_ForeArm", head |-> <<-16, 0, 46>>, tail |-> <<-17, 0, 30>>, parent |-> "L_UpperArm", connect |-> TRUE],
         [name |-> "L_Hand", head |-> <<-17, 0, 30>>, tail |-> <<-17, 0, 25>>, parent |-> "L_ForeArm", connect |-> TRUE],
         [name |-> "R_UpperArm", head |-> <<12, 0, 50>>, tail |-> <<16, 0, 46>>, parent |-> "Spine", connect |-> FALSE],
         [name |-> "R_ForeArm", head |-> <<16, 0, 46>>, tail |-> <<17, 0, 30>>, parent |-> "R_UpperArm", connect |-> TRUE],
         [name |-> "R_Hand", head |-> <<17, 0, 30>>, tail |-> <<17, 0, 25>>, parent |-> "R_ForeArm", connect |-> TRUE],
         [name |-> "L_UpperLeg", head |-> <<-7, 0, 26>>, tail |-> <<-7, 0, 14>>, parent |-> "Root", connect |-> FALSE],
         [name |-> "L_LowerLeg", head |-> <<-7, 0, 14>>, tail |-> <<-7, 0, 3>>, parent |-> "L_UpperLeg", connect |-> TRUE],
         [name |-> "R_UpperLeg", head |-> <<7, 0, 26>>, tail |-> <<7, 0, 14>>, parent |-> "Root", connect |-> FALSE],
         [name |-> "R_LowerLeg", head |-> <<7, 0, 14>>, tail |-> <<7, 0, 3>>, parent |-> "R_UpperLeg", connect |-> TRUE] >>],
   \* create_walk_cycle: keyframes as (frame, set_bone_rot/set_bone_loc calls after reset_pose); degrees x10, offsets x1000
   create_walk_cycle |->
      [name |-> "Walk", creates_animation_data |-> TRUE, interpolation |-> "LINEAR",
       keyframes |-> <<
         [frame |-> 1, overrides |-> << [bone |-> "R_ForeArm", path |-> "rotation_euler", value |-> <<-450, 0, 0>>], [bone |-> "R_UpperArm", path |-> "rotation_euler", value |-> <<50, 0, 50>>] >>],
         [frame |-> 7, overrides |-> << [bone |-> "R_ForeArm", path |-> "rotation_euler", value |-> <<-450, 0, 0>>], [bone |-> "R_UpperArm", path |-> "rotation_euler", value |-> <<50, 0, 50>>], [bone |-> "L_UpperLeg", path |-> "rotation_euler", value |-> <<300, 0, 0>>], [bone |-> "L_LowerLeg", path |-> "rotation_euler", value |-> <<-90, 0, 0>>], [bone |-> "R_UpperLeg", path |-> "rotation_euler", value |-> <<-300, 0, 0>>], [bone |-> "L_UpperArm", path |-> "rotation_euler", value |-> <<250, 0, 0>>], [bone |-> "L_ForeArm", path |-> "rotation_euler", value |-> <<-100, 0, 0>>], [bone |-> "Root", path |-> "location", value |-> <<0, 0, 20>>], [bone |-> "Spine", path |-> "rotation_euler", value |-> <<0, 0, 30>>] >>],
         [frame |-> 13, overrides |-> << [bone |-> "R_ForeArm", path |-> "rotation_euler", value |-> <<-450, 0, 0>>], [bone |-> "R_UpperArm", path |-> "rotation_euler", value |-> <<50, 0, 50>>] >>],
         [frame |-> 19, overrides |-> << [bone |-> "R_ForeArm", path |-> "rotation_euler", value |-> <<-450, 0, 0>>], [bone |-> "R_UpperArm", path |-> "rotation_euler", value |-> <<50, 0, 50>>], [bone |-> "R_UpperLeg", path |-> "rotation_euler", value |-> <<300, 0, 0>>], [bone |-> "R_LowerLeg", path |-> "rotation_euler", value |-> <<-90, 0, 0>>], [bone |-> "L_UpperLeg", path |-> "rotation_euler", value |-> <<-300, 0, 0>>], [bone |-> "L_UpperArm", path |-> "rotation_euler", value |-> <<-250, 0, 0>>], [bone |-> "Root", path |-> "location", value |-> <<0, 0, 20>>], [bone |-> "Spine", path |-> "rotation_euler", value |-> <<0, 0, -30>>] >>],
         [frame |-> 25, overrides |-> << [bone |-> "R_ForeArm", path |-> "rotation_euler", value |-> <<-450, 0, 0>>], [bone |-> "R_UpperArm", path |-> "rotation_euler", value |-> <<50, 0, 50>>] >>] >>],
   \* create_attack_anim: keyframes as (frame, set_bone_rot/set_bone_loc calls after reset_pose); degrees x10, offsets x1000
   create_attack_anim |->
      [name |-> "Attack", creates_animation_data |-> FALSE, interpolation |-> "BEZIER",
       keyframes |-> <<
         [frame |-> 1, overrides |-> << [bone |-> "R_ForeArm", path |-> "rotation_euler", value |-> <<-450, 0, 0>>], [bone |-> "R_UpperArm", path |-> "rotation_euler", value |-> <<50, 0, 50>>] >>],
         [frame |-> 6, overrides |-> << [bone |-> "Spine", path |-> "rotation_euler", value |-> <<0, 474, 0>>], [bone |-> "Head", path |-> "rotation_euler", value |-> <<0, -458, 0>>], [bone |-> "L_UpperArm", path |-> "rotation_euler", value |-> <<-394, 707, 304>>], [bone |-> "L_ForeArm", path |-> "rotation_euler", value |-> <<-4, 111, -337>>], [bone |-> "R_UpperArm", path |-> "rotation_euler", value |-> <<-246, 289, -512>>], [bone |-> "R_ForeArm", path |-> "rotation_euler", value |-> <<-919, -325, -463>>], [bone |-> "R_Hand", path |-> "rotation_euler", value |-> <<1050, -652, 3>>] >>],
         [frame |-> 18, overrides |-> << [bone |-> "Spine", path |-> "rotation_euler", value |-> <<0, 474, 0>>], [bone |-> "Head", path |-> "rotation_euler", value |-> <<0, -458, 0>>], [bone |-> "L_UpperArm", path |-> "rotation_euler", value |-> <<-394, 707, 304>>], [bone |-> "L_ForeArm", path |-> "rotation_euler", value |-> <<-4, 111, -337>>], [bone |-> "R_UpperArm", path |-> "rotation_euler", value |-> <<-246, 289, -512>>], [bone |-> "R_ForeArm", path |-> "rotation_euler", value |-> <<-919, -325, -463>>], [bone |-> "R_Hand", path |-> "rotation_euler", value |-> <<1050, -652, 3>>] >>],
         [frame |-> 24, overrides |-> << [bone |-> "R_ForeArm", path |-> "rotation_euler", value |-> <<-450, 0, 0>>], [bone |-> "R_UpperArm", path |-> "rotation_euler", value |-> <<50, 0, 50>>] >>] >>],
   \* create_die_anim: keyframes as (frame, set_bone_rot/set_bone_loc calls after reset_pose); degrees x10, offsets x1000
   create_die_anim |->
      [name |-> "Die", creates_animation_data |-> FALSE, interpolation |-> "BEZIER",
       keyframes |-> <<
         [frame |-> 1, overrides |-> <<  >>],
         [frame |-> 6, overrides |-> << [bone |-> "Spine", path |-> "rotation_euler", value |-> <<150, 0, 0>>], [bone |-> "Head", path |-> "rotation_euler", value |-> <<100, 0, 50>>], [bone |-> "R_UpperArm", path |-> "rotation_euler", value |-> <<100, 0, 200>>], [bone |-> "L_UpperArm", path |-> "rotation_euler", value |-> <<100, 0, -200>>], [bone |-> "Root", path |-> "location", value |-> <<0, -20, 0>>] >>],
         [frame |-> 12, overrides |-> << [bone |-> "Spine", path |-> "rotation_euler", value |-> <<-200, 0, 30>>], [bone |-> "Head", path |-> "rotation_euler", value |-> <<-150, 0, -50>>], [bone |-> "R_UpperArm", path |-> "rotation_euler", value |-> <<-200, 0, 300>>], [bone |-> "R_ForeArm", path |-> "rotation_euler", value |-> <<-200, 0, 0>>], [bone |-> "L_UpperArm", path |-> "rotation_euler", value |-> <<-200, 0, -300>>], [bone |-> "L_ForeArm", path |-> "rotation_euler", value |-> <<-200, 0, 0>>], [bone |-> "L_UpperLeg", path |-> "rotation_euler", value |-> <<-200, 0, 0>>], [bone |-> "R_UpperLeg", path |-> "rotation_euler", value |-> <<-200, 0, 0>>], [bone |-> "Root", path |-> "location", value |-> <<0, -50, 50>>] >>],
         [frame |-> 20, overrides |-> << [bone |-> "Spine", path |-> "rotation_euler", value |-> <<-500, 0, 50>>], [bone |-> "Head", path |-> "rotation_euler", value |-> <<-300, 0, -100>>], [bone |-> "R_UpperArm", path |-> "rotation_euler", value |-> <<-400, 0, 450>>], [bone |-> "R_ForeArm", path |-> "rotation_euler", value |-> <<-300, 0, 0>>], [bone |-> "L_UpperArm", path |-> "rotation_euler", value |-> <<-400, 0, -450>>], [bone |-> "L_ForeArm", path |-> "rotation_euler", value |-> <<-300, 0, 0>>], [bone |-> "L_UpperLeg", path |-> "rotation_euler", value |-> <<-500, 0, 0>>], [bone |-> "R_UpperLeg", path |-> "rotation_euler", value |-> <<-500, 0, 0>>], [bone |-> "Root", path |-> "location", value |-> <<0, -200, 150>>] >>],
         [frame |-> 30, overrides |-> << [bone |-> "Spine", path |-> "rotation_euler", value |-> <<-800, 0, 50>>], [bone |-> "Head", path |-> "rotation_euler", value |-> <<-400, 0, -150>>], [bone |-> "L_UpperArm", path |-> "rotation_euler", value |-> <<1615, -218, -929>>], [bone |-> "L_ForeArm", path |-> "rotation_euler", value |-> <<-100, 0, -200>>], [bone |-> "R_UpperArm", path |-> "rotation_euler", value |-> <<691, -418, -460>>], [bone |-> "R_ForeArm", path |-> "rotation_euler", value |-> <<-100, 0, 200>>], [bone |-> "L_UpperLeg", path |-> "rotation_euler", value |-> <<-677, 303, 233>>], [bone |-> "L_LowerLeg", path |-> "rotation_euler", value |-> <<100, 0, 0>>], [bone |-> "R_UpperLeg", path |-> "rotation_euler", value |-> <<-740, -160, -208>>], [bone |-> "R_LowerLeg", path |-> "rotation_euler", value |-> <<100, 0, 0>>], [bone |-> "Root", path |-> "location", value |-> <<0, -350, 300>>] >>] >>],
   \* main: active-clip handling around track packaging (frame 0 = no frame_set), pose-mode re-entry, camera name
   main |->
      [clear_active |-> FALSE, preview |-> "Attack", preview_frame |-> 1, repose |-> TRUE, final |-> "Attack", final_frame |-> 1, camera |-> "CrossbowmanCamera"]
  ]

\* generate_engineer.py: what each of its functions does, by function
generate_engineer ==
  [
   \* create_materials: material names in creation order
   create_materials |->
      << "EngineerSkin", "EngineerSkinDark", "EngineerHair", "EngineerEyes", "EngineerMouth", "EngineerTunic", "EngineerTunicDk", "EngineerApron", "EngineerBelt", "EngineerLeather", "EngineerBoots", "EngineerMetal", "EngineerWood" >>,
   \* build_body_parts: body parts in assembly order, each with the bone key it is grouped under and its primitives
   build_parts |->
      <<
          [name |-> "Grp_Spine", bone |-> "Spine", joined |-> TRUE,
          prims |-> << [name |-> "Torso", kind |-> "Cube", mat |-> "EngineerSkin"], [name |-> "Tunic", kind |-> "Cube", mat |-> "EngineerTunic"], [name |-> "Apron", kind |-> "Cube", mat |-> "EngineerApron"], [name |-> "ApronStrap", kind |-> "Cube", mat |-> "EngineerApron"], [name |-> "TunicSkirt", kind |-> "Cube", mat |-> "EngineerTunic"], [name |-> "Belt", kind |-> "Cube", mat |-> "EngineerBelt"], [name |-> "BeltBuckle", kind |-> "Cube", mat |-> "EngineerMetal"], [name |-> "PouchL", kind |-> "Cube", mat |-> "EngineerLeather"], [name |-> "PouchR", kind |-> "Cube", mat |-> "EngineerLeather"] >>],
          [name |-> "Grp_Head", bone |-> "Head", joined |-> TRUE,
          prims |-> << [name |-> "Head", kind |-> "Cube", mat |-> "EngineerSkin"], [name |-> "HairTop", kind |-> "Cube", mat |-> "EngineerHair"], [name |-> "HairBack", kind |-> "Cube", mat |-> "EngineerHair"], [name |-> "EyeL", kind |-> "Cube", mat |-> "EngineerEyes"], [name |-> "EyeR", kind |-> "Cube", mat |-> "EngineerEyes"], [name |-> "Nose", kind |-> "Cube", mat |-> "EngineerSkinDark"], [name |-> "Mouth", kind |-> "Cube", mat |-> "EngineerMouth"], [name |-> "EarL", kind |-> "Cube", mat |-> "EngineerSkinDark"], [name |-> "EarR", kind |-> "Cube", mat |-> "EngineerSkinDark"] >>],
          [name |-> "Grp_L_UpperArm", bone |-> "L_UpperArm", joined |-> TRUE,
          prims |-> << [name |-> "ArmLU", kind |-> "Cube", mat |-> "EngineerTunic"] >>],
          [name |-> "Grp_L_ForeArm", bone |-> "L_ForeArm", joined |-> TRUE,
          prims |-> << [name |-> "ArmLL", kind |-> "Cube", mat |-> "EngineerSkin"], [name |-> "GloveL", kind |-> "Cube", mat |-> "EngineerLeather"] >>],
          [name |-> "Grp_R_UpperArm", bone |-> "R_UpperArm", joined |-> TRUE,
          prims |-> << [name |-> "ArmRU", kind |-> "Cube", mat |-> "EngineerTunic"] >>],
          [name |-> "Grp_R_ForeArm", bone |-> "R_ForeArm", joined |-> TRUE,
          prims |-> << [name |-> "ArmRL", kind |-> "Cube", mat |-> "EngineerSkin"], [name |-> "GloveR", kind |-> "Cube", mat |-> "EngineerLeather"], [name |-> "HammerShaft", kind |-> "Cylinder", mat |-> "EngineerWood"], [name |-> "HammerHead", kind |-> "Cube", mat |-> "EngineerMetal"] >>],
          [name |-> "LegLU", bone |-> "L_UpperLeg", joined |-> FALSE,
          prims |-> << [name |-> "LegLU", kind |-> "Cube", mat |-> "EngineerTunicDk"] >>],
          [name |-> "Grp_L_LowerLeg", bone |-> "L_LowerLeg", joined |-> TRUE,
          prims |-> << [name |-> "LegLL", kind |-> "Cube", mat |-> "EngineerSkin"], [name |-> "BootL", kind |-> "Cube", mat |-> "EngineerBoots"] >>],
          [name |-> "LegRU", bone |-> "R_UpperLeg", joined |-> FALSE,
          prims |-> << [name |-> "LegRU", kind |-> "Cube", mat |-> "EngineerTunicDk"] >>],
          [name |-> "Grp_R_LowerLeg", bone |-> "R_LowerLeg", joined |-> TRUE,
          prims |-> << [name |-> "LegRL", kind |-> "Cube", mat |-> "EngineerSkin"], [name |-> "BootR", kind |-> "Cube", mat |-> "EngineerBoots"] >>] >>,
   \* create_armature: add_bone calls in order; head/tail in 1/100 units
   create_armature |->
      [obj |-> "EngineerArmature", data |-> "EngineerRig",
       bones |-> <<
         [name |-> "Root", head |-> <<0, 0, 26>>, tail |-> <<0, 0, 30>>, parent |-> "", connect |-> FALSE],
         [name |-> "Spine", head |-> <<0, 0, 26>>, tail |-> <<0, 0, 52>>, parent |-> "Root", connect |-> TRUE],
         [name |-> "Head", head |-> <<0, 0, 52>>, tail |-> <<0, 0, 70>>, parent |-> "Spine", connect |-> TRUE],
         [name |-> "L_UpperArm", head |-> <<-12, 0, 50>>, tail |-> <<-16, 0, 46>>, parent |-> "Spine", connect |-> FALSE],
         [name |-> "L_ForeArm", head |-> <<-16, 0, 46>>, tail |-> <<-17, 0, 30>>, parent |-> "L_UpperArm", connect |-> TRUE],
         [name |-> "R_UpperArm", head |-> <<12, 0, 50>>, tail |-> <<16, 0, 46>>, parent |-> "Spine", connect |-> FALSE],
         [name |-> "R_ForeArm", head |-> <<16, 0, 46>>, tail |-> <<17, 0, 30>>, parent |-> "R_UpperArm", connect |-> TRUE],
         [name |-> "L_UpperLeg", head |-> <<-7, 0, 26>>, tail |-> <<-7, 0, 14>>, parent |-> "Root", connect |-> FALSE],
         [name |-> "L_LowerLeg", head |-> <<-7, 0, 14>>, tail |-> <<-7, 0, 3>>, parent |-> "L_UpperLeg", connect |-> TRUE],
         [name |-> "R_UpperLeg", head |-> <<7, 0, 26>>, tail |-> <<7, 0, 14>>, parent |-> "Root", connect |-> FALSE],
         [name |-> "R_LowerLeg", head |-> <<7, 0, 14>>, tail |-> <<7, 0, 3>>, parent |-> "R_UpperLeg", connect |-> TRUE] >>],
   \* create_walk_cycle: keyframes as (frame, set_bone_rot/set_bone_loc calls after reset_pose); degrees x10, offsets x1000
   create_walk_cycle |->
      [name |-> "Walk", creates_animation_data |-> TRUE, interpolation |-> "LINEAR",
       keyframes |-> <<
         [frame |-> 1, overrides |-> <<  >>],
         [frame |-> 7, overrides |-> << [bone |-> "L_UpperLeg", path |-> "rotation_euler", value |-> <<300, 0, 0>>], [bone |-> "L_LowerLeg", path |-> "rotation_euler", value |-> <<-90, 0, 0>>], [bone |-> "R_UpperLeg", path |-> "rotation_euler", value |-> <<-300, 0, 0>>], [bone |-> "R_LowerLeg", path |-> "rotation_euler", value |-> <<0, 0, 0>>], [bone |-> "R_UpperArm", path |-> "rotation_euler", value |-> <<200, 0, 0>>], [bone |-> "R_ForeArm", path |-> "rotation_euler", value |-> <<-80, 0, 0>>], [bone |-> "L_UpperArm", path |-> "rotation_euler", value |-> <<-200, 0, 0>>], [bone |-> "L_ForeArm", path |-> "rotation_euler", value |-> <<0, 0, 0>>], [bone |-> "Root", path |-> "location", value |-> <<0, 0, 20>>], [bone |-> "Spine", path |-> "rotation_euler", value |-> <<0, 0, 30>>] >>],
         [frame |-> 13, overrides |-> <<  >>],
         [frame |-> 19, overrides |-> << [bone |-> "R_UpperLeg", path |-> "rotation_euler", value |-> <<300, 0, 0>>], [bone |-> "R_LowerLeg", path |-> "rotation_euler", value |-> <<-90, 0, 0>>], [bone |-> "L_UpperLeg", path |-> "rotation_euler", value |-> <<-300, 0, 0>>], [bone |-> "L_LowerLeg", path |-> "rotation_euler", value |-> <<0, 0, 0>>], [bone |-> "L_UpperArm", path |-> "rotation_euler", value |-> <<200, 0, 0>>], [bone |-> "L_ForeArm", path |-> "rotation_euler", value |-> <<-80, 0, 0>>], [bone |-> "R_UpperArm", path |-> "rotation_euler", value |-> <<-200, 0, 0>>], [bone |-> "R_ForeArm", path |-> "rotation_euler", value |-> <<0, 0, 0>>], [bone |-> "Root", path |-> "location", value |-> <<0, 0, 20>>], [bone |-> "Spine", path |-> "rotation_euler", value |-> <<0, 0, -30>>] >>],
         [frame |-> 25, overrides |-> <<  >>] >>],
   \* create_attack_anim: keyframes as (frame, set_bone_rot/set_bone_loc calls after reset_pose); degrees x10, offsets x1000
   create_attack_anim |->
      [name |-> "Attack", creates_animation_data |-> FALSE, interpolation |-> "BEZIER",
       keyframes |-> <<
         [frame |-> 1, overrides |-> <<  >>],
         [frame |-> 5, overrides |-> << [bone |-> "R_UpperArm", path |-> "rotation_euler", value |-> <<0, 0, -700>>], [bone |-> "R_ForeArm", path |-> "rotation_euler", value |-> <<-300, 0, 0>>], [bone |-> "Spine", path |-> "rotation_euler", value |-> <<0, 0, -50>>], [bone |-> "Head", path |-> "rotation_euler", value |-> <<50, 0, 0>>] >>],
         [frame |-> 8, overrides |-> << [bone |-> "R_UpperArm", path |-> "rotation_euler", value |-> <<0, 0, -850>>], [bone |-> "R_ForeArm", path |-> "rotation_euler", value |-> <<-400, 0, 0>>], [bone |-> "Spine", path |-> "rotation_euler", value |-> <<-50, 0, -80>>], [bone |-> "Head", path |-> "rotation_euler", value |-> <<50, 0, 0>>] >>],
         [frame |-> 11, overrides |-> << [bone |-> "R_UpperArm", path |-> "rotation_euler", value |-> <<150, 0, 300>>], [bone |-> "R_ForeArm", path |-> "rotation_euler", value |-> <<200, 0, 0>>], [bone |-> "Spine", path |-> "rotation_euler", value |-> <<80, 0, 50>>], [bone |-> "Head", path |-> "rotation_euler", value |-> <<-50, 0, 0>>], [bone |-> "Root", path |-> "location", value |-> <<0, -20, -30>>] >>],
         [frame |-> 14, overrides |-> << [bone |-> "R_UpperArm", path |-> "rotation_euler", value |-> <<100, 0, 250>>], [bone |-> "R_ForeArm", path |-> "rotation_euler", value |-> <<150, 0, 0>>], [bone |-> "Spine", path |-> "rotation_euler", value |-> <<50, 0, 30>>], [bone |-> "Root", path |-> "location", value |-> <<0, -20, -20>>] >>],
         [frame |-> 20, overrides |-> <<  >>] >>],
   \* create_die_anim: keyframes as (frame, set_bone_rot/set_bone_loc calls after reset_pose); degrees x10, offsets x1000
   create_die_anim |->
      [name |-> "Die", creates_animation_data |-> FALSE, interpolation |-> "BEZIER",
       keyframes |-> <<
         [frame |-> 1, overrides |-> <<  >>],
         [frame |-> 6, overrides |-> << [bone |-> "Spine", path |-> "rotation_euler", value |-> <<150, 0, 0>>], [bone |-> "Head", path |-> "rotation_euler", value |-> <<100, 0, 50>>], [bone |-> "R_UpperArm", path |-> "rotation_euler", value |-> <<100, 0, 200>>], [bone |-> "L_UpperArm", path |-> "rotation_euler", value |-> <<100, 0, -200>>], [bone |-> "Root", path |-> "location", value |-> <<0, -20, 0>>] >>],
         [frame |-> 12, overrides |-> << [bone |-> "Spine", path |-> "rotation_euler", value |-> <<-200, 0, 30>>], [bone |-> "Head", path |-> "rotation_euler", value |-> <<-150, 0, -50>>], [bone |-> "R_UpperArm", path |-> "rotation_euler", value |-> <<-200, 0, 300>>], [bone |-> "R_ForeArm", path |-> "rotation_euler", value |-> <<-200, 0, 0>>], [bone |-> "L_UpperArm", path |-> "rotation_euler", value |-> <<-200, 0, -300>>], [bone |-> "L_ForeArm", path |-> "rotation_euler", value |-> <<-200, 0, 0>>], [bone |-> "L_UpperLeg", path |-> "rotation_euler", value |-> <<-200, 0, 0>>], [bone |-> "R_UpperLeg", path |-> "rotation_euler", value |-> <<-200, 0, 0>>], [bone |-> "Root", path |-> "location", value |-> <<0, -50, 50>>] >>],
         [frame |-> 20, overrides |-> << [bone |-> "Spine", path |-> "rotation_euler", value |-> <<-500, 0, 50>>], [bone |-> "Head", path |-> "rotation_euler", value |-> <<-300, 0, -100>>], [bone |-> "R_UpperArm", path |-> "rotation_euler", value |-> <<-400, 0, 450>>], [bone |-> "R_ForeArm", path |-> "rotation_euler", value |-> <<-300, 0, 0>>], [bone |-> "L_UpperArm", path |-> "rotation_euler", value |-> <<-400, 0, -450>>], [bone |-> "L_ForeArm", path |-> "rotation_euler", value |-> <<-300, 0, 0>>], [bone |-> "L_UpperLeg", path |-> "rotation_euler", value |-> <<-500, 0, 0>>], [bone |-> "R_UpperLeg", path |-> "rotation_euler", value |-> <<-500, 0, 0>>], [bone |-> "Root", path |-> "location", value |-> <<0, -200, 150>>] >>],
         [frame |-> 30, overrides |-> << [bone |-> "Spine", path |-> "rotation_euler", value |-> <<-800, 0, 50>>], [bone |-> "Head", path |-> "rotation_euler", value |-> <<-400, 0, -150>>], [bone |-> "R_UpperArm", path |-> "rotation_euler", value |-> <<-300, 0, 600>>], [bone |-> "R_ForeArm", path |-> "rotation_euler", value |-> <<-200, 0, 0>>], [bone |-> "L_UpperArm", path |-> "rotation_euler", value |-> <<-300, 0, -600>>], [bone |-> "L_ForeArm", path |-> "rotation_euler", value |-> <<-200, 0, 0>>], [bone |-> "L_UpperLeg", path |-> "rotation_euler", value |-> <<-800, 0, 0>>], [bone |-> "R_UpperLeg", path |-> "rotation_euler", value |-> <<-800, 0, 0>>], [bone |-> "Root", path |-> "location", value |-> <<0, -350, 300>>] >>] >>],
   \* main: active-clip handling around track packaging (frame 0 = no frame_set), pose-mode re-entry, camera name
   main |->
      [clear_active |-> FALSE, preview |-> "Die", preview_frame |-> 30, repose |-> TRUE, final |-> "", final_frame |-> 30, camera |-> "EngineerCamera"]
  ]

\* generate_gate.py: what each of its functions does, by function
generate_gate ==
  [
   \* create_materials: material names in creation order
   create_materials |->
      << "GateStone", "GateStoneDk", "GateWood", "GateWoodDk", "GateIron" >>,
   \* build_frame/build_door: body parts in assembly order, each with the bone key it is grouped under and its primitives
   build_parts |->
      <<
          [name |-> "GateFrame", bone |-> "Root", joined |-> TRUE,
          prims |-> << [name |-> "PostL", kind |-> "Cube", mat |-> "GateStone"], [name |-> "PostR", kind |-> "Cube", mat |-> "GateStone"], [name |-> "TopBeam", kind |-> "Cube", mat |-> "GateStone"], [name |-> "CapL", kind |-> "Cube", mat |-> "GateStoneDk"], [name |-> "CapR", kind |-> "Cube", mat |-> "GateStoneDk"], [name |-> "SpikeL", kind |-> "SpikeL_mesh", mat |-> "GateIron"], [name |-> "SpikeR", kind |-> "SpikeR_mesh", mat |-> "GateIron"], [name |-> "BandL_0.5", kind |-> "Cube", mat |-> "GateIron"], [name |-> "BandR_0.5", kind |-> "Cube", mat |-> "GateIron"], [name |-> "BandL_1.2", kind |-> "Cube", mat |-> "GateIron"], [name |-> "BandR_1.2", kind |-> "Cube", mat |-> "GateIron"], [name |-> "Keystone", kind |-> "Cube", mat |-> "GateStoneDk"], [name |-> "KeyBracket", kind |-> "Cube", mat |-> "GateIron"], [name |-> "Threshold", kind |-> "Cube", mat |-> "GateStoneDk"] >>],
          [name |-> "LeftDoor", bone |-> "LeftDoorPivot", joined |-> TRUE,
          prims |-> << [name |-> "Panel_left", kind |-> "Cube", mat |-> "GateWood"], [name |-> "Plank_left_0", kind |-> "Cube", mat |-> "GateWoodDk"], [name |-> "Plank_left_1", kind |-> "Cube", mat |-> "GateWoodDk"], [name |-> "DoorBand_left_0.25", kind |-> "Cube", mat |-> "GateIron"], [name |-> "DoorBand_left_0.85", kind |-> "Cube", mat |-> "GateIron"], [name |-> "DoorBand_left_1.45", kind |-> "Cube", mat |-> "GateIron"], [name |-> "Stud_left_0.25_-0.1", kind |-> "Cube", mat |-> "GateIron"], [name |-> "Stud_left_0.25_-0.6", kind |-> "Cube", mat |-> "GateIron"], [name |-> "Stud_left_0.85_-0.1", kind |-> "Cube", mat |-> "GateIron"], [name |-> "Stud_left_0.85_-0.6", kind |-> "Cube", mat |-> "GateIron"], [name |-> "Stud_left_1.45_-0.1", kind |-> "Cube", mat |-> "GateIron"], [name |-> "Stud_left_1.45_-0.6", kind |-> "Cube", mat |-> "GateIron"], [name |-> "Ring_left", kind |-> "Cylinder", mat |-> "GateIron"], [name |-> "RingMount_left", kind |-> "Cube", mat |-> "GateIron"] >>],
          [name |-> "RightDoor", bone |-> "RightDoorPivot", joined |-> TRUE,
          prims |-> << [name |-> "Panel_right", kind |-> "Cube", mat |-> "GateWood"], [name |-> "Plank_right_0", kind |-> "Cube", mat |-> "GateWoodDk"], [name |-> "Plank_right_1", kind |-> "Cube", mat |-> "GateWoodDk"], [name |-> "DoorBand_right_0.25", kind |-> "Cube", mat |-> "GateIron"], [name |-> "DoorBand_right_0.85", kind |-> "Cube", mat |-> "GateIron"], [name |-> "DoorBand_right_1.45", kind |-> "Cube", mat |-> "GateIron"], [name |-> "Stud_right_0.25_0.1", kind |-> "Cube", mat |-> "GateIron"], [name |-> "Stud_right_0.25_0.6", kind |-> "Cube", mat |-> "GateIron"], [name |-> "Stud_right_0.85_0.1", kind |-> "Cube", mat |-> "GateIron"], [name |-> "Stud_right_0.85_0.6", kind |-> "Cube", mat |-> "GateIron"], [name |-> "Stud_right_1.45_0.1", kind |-> "Cube", mat |-> "GateIron"], [name |-> "Stud_right_1.45_0.6", kind |-> "Cube", mat |-> "GateIron"], [name |-> "Ring_right", kind |-> "Cylinder", mat |-> "GateIron"], [name |-> "RingMount_right", kind |-> "Cube", mat |-> "GateIron"] >>] >>,
   \* build_armature: add_bone calls in order; head/tail in 1/100 units
   build_armature |->
      [obj |-> "GateArmature", data |-> "GateRig",
       bones |-> <<
         [name |-> "Root", head |-> <<0, 0, 0>>, tail |-> <<0, 0, 50>>, parent |-> "", connect |-> FALSE],
         [name |-> "LeftDoorPivot", head |-> <<-70, 0, 5>>, tail |-> <<-70, 0, 170>>, parent |-> "Root", connect |-> FALSE],
         [name |-> "RightDoorPivot", head |-> <<70, 0, 5>>, tail |-> <<70, 0, 170>>, parent |-> "Root", connect |-> FALSE] >>],
   \* main: active-clip handling around track packaging (frame 0 = no frame_set), pose-mode re-entry, camera name
   main |->
      [clear_active |-> FALSE, preview |-> "", preview_frame |-> 0, repose |-> FALSE, final |-> "", final_frame |-> 0, camera |-> "GateCamera"]
  ]

\* generate_goblin_cannoneer.py add_goblin_bones: its add_bone calls in order, names without the prefix, head/tail relative to (ox, oy, 0), in 1/100 units; prefixed = the parent name is built with the prefix
goblin_bones ==
  <<
    [name |-> "Root", head |-> <<0, 0, 24>>, tail |-> <<0, 0, 28>>, parent |-> "Root", prefixed |-> FALSE, connect |-> FALSE],
    [name |-> "Spine", head |-> <<0, 0, 24>>, tail |-> <<0, 0, 48>>, parent |-> "Root", prefixed |-> TRUE, connect |-> TRUE],
    [name |-> "Head", head |-> <<0, 0, 48>>, tail |-> <<0, 0, 68>>, parent |-> "Spine", prefixed |-> TRUE, connect |-> TRUE],
    [name |-> "L_UpperArm", head |-> <<-11, 0, 46>>, tail |-> <<-17, 0, 44>>, parent |-> "Spine", prefixed |-> TRUE, connect |-> FALSE],
    [name |-> "L_ForeArm", head |-> <<-17, 0, 44>>, tail |-> <<-18, 0, 26>>, parent |-> "L_UpperArm", prefixed |-> TRUE, connect |-> TRUE],
    [name |-> "R_UpperArm", head |-> <<11, 0, 46>>, tail |-> <<17, 0, 44>>, parent |-> "Spine", prefixed |-> TRUE, connect |-> FALSE],
    [name |-> "R_ForeArm", head |-> <<17, 0, 44>>, tail |-> <<18, 0, 26>>, parent |-> "R_UpperArm", prefixed |-> TRUE, connect |-> TRUE],
    [name |-> "L_UpperLeg", head |-> <<-7, 0, 24>>, tail |-> <<-7, 0, 12>>, parent |-> "Root", prefixed |-> TRUE, connect |-> FALSE],
    [name |-> "L_LowerLeg", head |-> <<-7, 0, 12>>, tail |-> <<-7, 0, 3>>, parent |-> "L_UpperLeg", prefixed |-> TRUE, connect |-> TRUE],
    [name |-> "R_UpperLeg", head |-> <<7, 0, 24>>, tail |-> <<7, 0, 12>>, parent |-> "Root", prefixed |-> TRUE, connect |-> FALSE],
    [name |-> "R_LowerLeg", head |-> <<7, 0, 12>>, tail |-> <<7, 0, 3>>, parent |-> "R_UpperLeg", prefixed |-> TRUE, connect |-> TRUE] >>

\* add_goblin_bones called with bone names that ignore the prefix
add_goblin_bones_unprefixed(prefix, ox, oy) ==
  [i \in 1..Len(goblin_bones) |->
     LET b == goblin_bones[i]
     IN [name |-> b.name,
         head |-> <<ox + b.head[1], oy + b.head[2], b.head[3]>>,
         tail |-> <<ox + b.tail[1], oy + b.tail[2], b.tail[3]>>,
         parent |-> b.parent, connect |-> b.connect]]

\* generate_goblin_cannoneer.py add_goblin_bones(prefix, ox, oy): one actor's bones, named f"{prefix}..." and placed at the actor's offset
add_goblin_bones(prefix, ox, oy) ==
  [i \in 1..Len(goblin_bones) |->
     LET b == goblin_bones[i]
     IN [name |-> prefix \o b.name,
         head |-> <<ox + b.head[1], oy + b.head[2], b.head[3]>>,
         tail |-> <<ox + b.tail[1], oy + b.tail[2], b.tail[3]>>,
         parent |-> IF b.prefixed THEN prefix \o b.parent ELSE b.parent,
         connect |-> b.connect]]

\* generate_goblin_cannoneer.py: what each of its functions does, by function
generate_goblin_cannoneer ==
  [
   \* create_materials: material names in creation order
   create_materials |->
      << "CannonGobSkin", "CannonGobSkinDark", "CannonGobMouth", "CannonGobEyes", "CannonGobCloth", "CannonWood", "CannonGobTeeth", "CannonIron", "CannonIronDark", "CannonFuse", "CannonBall" >>,
   \* build_cannon_parts/build_goblin_parts: body parts in assembly order, each with the bone key it is grouped under and its primitives
   build_parts |->
      <<
          [name |-> "Grp_Cannon", bone |-> "Cannon", joined |-> TRUE,
          prims |-> << [name |-> "Barrel", kind |-> "Cylinder", mat |-> "CannonIron"], [name |-> "MuzzleRing", kind |-> "Cylinder", mat |-> "CannonIronDark"], [name |-> "RearRing", kind |-> "Cylinder", mat |-> "CannonIronDark"], [name |-> "Carriage", kind |-> "Cube", mat |-> "CannonWood"], [name |-> "RailL", kind |-> "Cube", mat |-> "CannonWood"], [name |-> "RailR", kind |-> "Cube", mat |-> "CannonWood"], [name |-> "HandleL", kind |-> "Cube", mat |-> "CannonWood"], [name |-> "HandleR", kind |-> "Cube", mat |-> "CannonWood"], [name |-> "Axle", kind |-> "Cube", mat |-> "CannonIronDark"], [name |-> "Fuse", kind |-> "Cylinder", mat |-> "CannonFuse"], [name |-> "FuseSpark", kind |-> "Sphere", mat |-> "CannonFuse"], [name |-> "Ball1", kind |-> "Sphere", mat |-> "CannonBall"], [name |-> "Ball2", kind |-> "Sphere", mat |-> "CannonBall"], [name |-> "Ball3", kind |-> "Sphere", mat |-> "CannonBall"] >>],
          [name |-> "Grp_Wheel_L", bone |-> "Wheel_L", joined |-> TRUE,
          prims |-> << [name |-> "WheelL", kind |-> "Cylinder", mat |-> "CannonWood"], [name |-> "HubL", kind |-> "Cylinder", mat |-> "CannonIron"] >>],
          [name |-> "Grp_Wheel_R", bone |-> "Wheel_R", joined |-> TRUE,
          prims |-> << [name |-> "WheelR", kind |-> "Cylinder", mat |-> "CannonWood"], [name |-> "HubR", kind |-> "Cylinder", mat |-> "CannonIron"] >>],
          [name |-> "Grp_A_Spine", bone |-> "A_Spine", joined |-> TRUE,
          prims |-> << [name |-> "A_Torso", kind |-> "Cube", mat |-> "CannonGobSkin"], [name |-> "A_WaistCloth", kind |-> "Cube", mat |-> "CannonGobCloth"], [name |-> "A_Loincloth", kind |-> "Cube", mat |-> "CannonGobCloth"] >>],
          [name |-> "Grp_A_Head", bone |-> "A_Head", joined |-> TRUE,
          prims |-> << [name |-> "A_Head", kind |-> "Cube", mat |-> "CannonGobSkin"], [name |-> "A_Brow", kind |-> "Cube", mat |-> "CannonGobSkinDark"], [name |-> "A_EyeL", kind |-> "Cube", mat |-> "CannonGobEyes"], [name |-> "A_EyeR", kind |-> "Cube", mat |-> "CannonGobEyes"], [name |-> "A_Nose", kind |-> "Cone", mat |-> "CannonGobSkinDark"], [name |-> "A_Mouth", kind |-> "Cube", mat |-> "CannonGobMouth"], [name |-> "A_ToothL", kind |-> "Cone", mat |-> "CannonGobTeeth"], [name |-> "A_ToothR", kind |-> "Cone", mat |-> "CannonGobTeeth"], [name |-> "A_EarL", kind |-> "Cone", mat |-> "CannonGobSkinDark"], [name |-> "A_EarR", kind |-> "Cone", mat |-> "CannonGobSkinDark"] >>],
          [name |-> "A_ArmLU", bone |-> "A_L_UpperArm", joined |-> FALSE,
          prims |-> << [name |-> "A_ArmLU", kind |-> "Cube", mat |-> "CannonGobSkin"] >>],
          [name |-> "Grp_A_L_ForeArm", bone |-> "A_L_ForeArm", joined |-> TRUE,
          prims |-> << [name |-> "A_ArmLL", kind |-> "Cube", mat |-> "CannonGobSkin"], [name |-> "A_HandL", kind |-> "Cube", mat |-> "CannonGobSkinDark"] >>],
          [name |-> "A_ArmRU", bone |-> "A_R_UpperArm", joined |-> FALSE,
          prims |-> << [name |-> "A_ArmRU", kind |-> "Cube", mat |-> "CannonGobSkin"] >>],
          [name |-> "Grp_A_R_ForeArm", bone |-> "A_R_ForeArm", joined |-> TRUE,
          prims |-> << [name |-> "A_ArmRL", kind |-> "Cube", mat |-> "CannonGobSkin"], [name |-> "A_HandR", kind |-> "Cube", mat |-> "CannonGobSkinDark"] >>],
          [name |-> "A_LegLU", bone |-> "A_L_UpperLeg", joined |-> FALSE,
          prims |-> << [name |-> "A_LegLU", kind |-> "Cube", mat |-> "CannonGobSkin"] >>],
          [name |-> "Grp_A_L_LowerLeg", bone |-> "A_L_LowerLeg", joined |-> TRUE,
          prims |-> << [name |-> "A_LegLL", kind |-> "Cube", mat |-> "CannonGobCloth"], [name |-> "A_FootL", kind |-> "Cube", mat |-> "CannonGobCloth"] >>],
          [name |-> "A_LegRU", bone |-> "A_R_UpperLeg", joined |-> FALSE,
          prims |-> << [name |-> "A_LegRU", kind |-> "Cube", mat |-> "CannonGobSkin"] >>],
          [name |-> "Grp_A_R_LowerLeg", bone |-> "A_R_LowerLeg", joined |-> TRUE,
          prims |-> << [name |-> "A_LegRL", kind |-> "Cube", mat |-> "CannonGobCloth"], [name |-> "A_FootR", kind |-> "Cube", mat |-> "CannonGobCloth"] >>],
          [name |-> "Grp_B_Spine", bone |-> "B_Spine", joined |-> TRUE,
          prims |-> << [name |-> "B_Torso", kind |-> "Cube", mat |-> "CannonGobSkin"], [name |-> "B_WaistCloth", kind |-> "Cube", mat |-> "CannonGobCloth"], [name |-> "B_Loincloth", kind |-> "Cube", mat |-> "CannonGobCloth"] >>],
          [name |-> "Grp_B_Head", bone |-> "B_Head", joined |-> TRUE,
          prims |-> << [name |-> "B_Head", kind |-> "Cube", mat |-> "CannonGobSkin"], [name |-> "B_Brow", kind |-> "Cube", mat |-> "CannonGobSkinDark"], [name |-> "B_EyeL", kind |-> "Cube", mat |-> "CannonGobEyes"], [name |-> "B_EyeR", kind |-> "Cube", mat |-> "CannonGobEyes"], [name |-> "B_Nose", kind |-> "Cone", mat |-> "CannonGobSkinDark"], [name |-> "B_Mouth", kind |-> "Cube", mat |-> "CannonGobMouth"], [name |-> "B_ToothL", kind |-> "Cone", mat |-> "CannonGobTeeth"], [name |-> "B_ToothR", kind |-> "Cone", mat |-> "CannonGobTeeth"], [name |-> "B_EarL", kind |-> "Cone", mat |-> "CannonGobSkinDark"], [name |-> "B_EarR", kind |-> "Cone", mat |-> "CannonGobSkinDark"] >>],
          [name |-> "B_ArmLU", bone |-> "B_L_UpperArm", joined |-> FALSE,
          prims |-> << [name |-> "B_ArmLU", kind |-> "Cube", mat |-> "CannonGobSkin"] >>],
          [name |-> "Grp_B_L_ForeArm", bone |-> "B_L_ForeArm", joined |-> TRUE,
          prims |-> << [name |-> "B_ArmLL", kind |-> "Cube", mat |-> "CannonGobSkin"], [name |-> "B_HandL", kind |-> "Cube", mat |-> "CannonGobSkinDark"] >>],
          [name |-> "B_ArmRU", bone |-> "B_R_UpperArm", joined |-> FALSE,
          prims |-> << [name |-> "B_ArmRU", kind |-> "Cube", mat |-> "CannonGobSkin"] >>],
          [name |-> "Grp_B_R_ForeArm", bone |-> "B_R_ForeArm", joined |-> TRUE,
          prims |-> << [name |-> "B_ArmRL", kind |-> "Cube", mat |-> "CannonGobSkin"], [name |-> "B_HandR", kind |-> "Cube", mat |-> "CannonGobSkinDark"] >>],
          [name |-> "B_LegLU", bone |-> "B_L_UpperLeg", joined |-> FALSE,
          prims |-> << [name |-> "B_LegLU", kind |-> "Cube", mat |-> "CannonGobSkin"] >>],
          [name |-> "Grp_B_L_LowerLeg", bone |-> "B_L_LowerLeg", joined |-> TRUE,
          prims |-> << [name |-> "B_LegLL", kind |-> "Cube", mat |-> "CannonGobCloth"], [name |-> "B_FootL", kind |-> "Cube", mat |-> "CannonGobCloth"] >>],
          [name |-> "B_LegRU", bone |-> "B_R_UpperLeg", joined |-> FALSE,
          prims |-> << [name |-> "B_LegRU", kind |-> "Cube", mat |-> "CannonGobSkin"] >>],
          [name |-> "Grp_B_R_LowerLeg", bone |-> "B_R_LowerLeg", joined |-> TRUE,
          prims |-> << [name |-> "B_LegRL", kind |-> "Cube", mat |-> "CannonGobCloth"], [name |-> "B_FootR", kind |-> "Cube", mat |-> "CannonGobCloth"] >>] >>,
   \* create_armature: add_bone calls in order; head/tail in 1/100 units
   create_armature |->
      [obj |-> "CannoneerArmature", data |-> "CannoneerRig",
       bones |-> <<
         [name |-> "Root", head |-> <<0, 0, 10>>, tail |-> <<0, 0, 14>>, parent |-> "", connect |-> FALSE],
         [name |-> "Cannon", head |-> <<0, 0, 14>>, tail |-> <<0, 0, 24>>, parent |-> "Root", connect |-> FALSE],
         [name |-> "Wheel_L", head |-> <<-18, 0, 8>>, tail |-> <<-20, 0, 8>>, parent |-> "Cannon", connect |-> FALSE],
         [name |-> "Wheel_R", head |-> <<18, 0, 8>>, tail |-> <<20, 0, 8>>, parent |-> "Cannon", connect |-> FALSE] >>
         \o add_goblin_bones("A_", -22, 28)
         \o add_goblin_bones("B_", 22, 28)],
   \* create_walk_cycle: keyframes as (frame, set_bone_rot/set_bone_loc calls after reset_pose); degrees x10, offsets x1000
   create_walk_cycle |->
      [name |-> "Walk", creates_animation_data |-> TRUE, interpolation |-> "LINEAR",
       keyframes |-> <<
         [frame |-> 1, overrides |-> << [bone |-> "A_L_UpperArm", path |-> "rotation_euler", value |-> <<-455, -193, 38>>], [bone |-> "A_L_ForeArm", path |-> "rotation_euler", value |-> <<-150, 0, 0>>], [bone |-> "A_R_UpperArm", path |-> "rotation_euler", value |-> <<-300, 0, 0>>], [bone |-> "A_R_ForeArm", path |-> "rotation_euler", value |-> <<28, -77, -501>>], [bone |-> "A_Spine", path |-> "rotation_euler", value |-> <<150, -100, 0>>], [bone |-> "A_Head", path |-> "rotation_euler", value |-> <<-100, 0, 0>>], [bone |-> "B_L_UpperArm", path |-> "rotation_euler", value |-> <<300, 0, 0>>], [bone |-> "B_L_ForeArm", path |-> "rotation_euler", value |-> <<-150, 0, 0>>], [bone |-> "B_R_UpperArm", path |-> "rotation_euler", value |-> <<-300, 0, 0>>], [bone |-> "B_R_ForeArm", path |-> "rotation_euler", value |-> <<-150, 0, 0>>], [bone |-> "B_Spine", path |-> "rotation_euler", value |-> <<150, 100, 0>>], [bone |-> "B_Head", path |-> "rotation_euler", value |-> <<-100, 0, 0>>] >>],
         [frame |-> 7, overrides |-> << [bone |-> "A_L_UpperArm", path |-> "rotation_euler", value |-> <<-455, -193, 38>>], [bone |-> "A_L_ForeArm", path |-> "rotation_euler", value |-> <<-150, 0, 0>>], [bone |-> "A_R_UpperArm", path |-> "rotation_euler", value |-> <<-300, 0, 0>>], [bone |-> "A_R_ForeArm", path |-> "rotation_euler", value |-> <<28, -77, -501>>], [bone |-> "A_Spine", path |-> "rotation_euler", value |-> <<150, -100, 0>>], [bone |-> "A_Head", path |-> "rotation_euler", value |-> <<-100, 0, 0>>], [bone |-> "A_L_UpperLeg", path |-> "rotation_euler", value |-> <<250, 0, 0>>], [bone |-> "A_L_LowerLeg", path |-> "rotation_euler", value |-> <<-75, 0, 0>>], [bone |-> "A_R_UpperLeg", path |-> "rotation_euler", value |-> <<-250, 0, 0>>], [bone |-> "A_R_LowerLeg", path |-> "rotation_euler", value |-> <<0, 0, 0>>], [bone |-> "B_L_UpperArm", path |-> "rotation_euler", value |-> <<300, 0, 0>>], [bone |-> "B_L_ForeArm", path |-> "rotation_euler", value |-> <<-150, 0, 0>>], [bone |-> "B_R_UpperArm", path |-> "rotation_euler", value |-> <<-300, 0, 0>>], [bone |-> "B_R_ForeArm", path |-> "rotation_euler", value |-> <<-150, 0, 0>>], [bone |-> "B_Spine", path |-> "rotation_euler", value |-> <<150, 100, 0>>], [bone |-> "B_Head", path |-> "rotation_euler", value |-> <<-100, 0, 0>>], [bone |-> "B_L_UpperLeg", path |-> "rotation_euler", value |-> <<250, 0, 0>>], [bone |-> "B_L_LowerLeg", path |-> "rotation_euler", value |-> <<-75, 0, 0>>], [bone |-> "B_R_UpperLeg", path |-> "rotation_euler", value |-> <<-250, 0, 0>>], [bone |-> "B_R_LowerLeg", path |-> "rotation_euler", value |-> <<0, 0, 0>>], [bone |-> "Wheel_L", path |-> "rotation_euler", value |-> <<0, 1050, 0>>], [bone |-> "Wheel_R", path |-> "rotation_euler", value |-> <<0, 1050, 0>>] >>],
         [frame |-> 13, overrides |-> << [bone |-> "A_L_UpperArm", path |-> "rotation_euler", value |-> <<-455, -193, 38>>], [bone |-> "A_L_ForeArm", path |-> "rotation_euler", value |-> <<-150, 0, 0>>], [bone |-> "A_R_UpperArm", path |-> "rotation_euler", value |-> <<-300, 0, 0>>], [bone |-> "A_R_ForeArm", path |-> "rotation_euler", value |-> <<28, -77, -501>>], [bone |-> "A_Spine", path |-> "rotation_euler", value |-> <<150, -100, 0>>], [bone |-> "A_Head", path |-> "rotation_euler", value |-> <<-100, 0, 0>>], [bone |-> "B_L_UpperArm", path |-> "rotation_euler", value |-> <<300, 0, 0>>], [bone |-> "B_L_ForeArm", path |-> "rotation_euler", value |-> <<-150, 0, 0>>], [bone |-> "B_R_UpperArm", path |-> "rotation_euler", value |-> <<-300, 0, 0>>], [bone |-> "B_R_ForeArm", path |-> "rotation_euler", value |-> <<-150, 0, 0>>], [bone |-> "B_Spine", path |-> "rotation_euler", value |-> <<150, 100, 0>>], [bone |-> "B_Head", path |-> "rotation_euler", value |-> <<-100, 0, 0>>], [bone |-> "Wheel_L", path |-> "rotation_euler", value |-> <<0, 1950, 0>>], [bone |-> "Wheel_R", path |-> "rotation_euler", value |-> <<0, 1950, 0>>] >>],
         [frame |-> 19, overrides |-> << [bone |-> "A_L_UpperArm", path |-> "rotation_euler", value |-> <<-455, -193, 38>>], [bone |-> "A_L_ForeArm", path |-> "rotation_euler", value |-> <<-150, 0, 0>>], [bone |-> "A_R_UpperArm", path |-> "rotation_euler", value |-> <<-300, 0, 0>>], [bone |-> "A_R_ForeArm", path |-> "rotation_euler", value |-> <<28, -77, -501>>], [bone |-> "A_Spine", path |-> "rotation_euler", value |-> <<150, -100, 0>>], [bone |-> "A_Head", path |-> "rotation_euler", value |-> <<-100, 0, 0>>], [bone |-> "A_R_UpperLeg", path |-> "rotation_euler", value |-> <<250, 0, 0>>], [bone |-> "A_R_LowerLeg", path |-> "rotation_euler", value |-> <<-75, 0, 0>>], [bone |-> "A_L_UpperLeg", path |-> "rotation_euler", value |-> <<-250, 0, 0>>], [bone |-> "A_L_LowerLeg", path |-> "rotation_euler", value |-> <<0, 0, 0>>], [bone |-> "B_L_UpperArm", path |-> "rotation_euler", value |-> <<300, 0, 0>>], [bone |-> "B_L_ForeArm", path |-> "rotation_euler", value |-> <<-150, 0, 0>>], [bone |-> "B_R_UpperArm", path |-> "rotation_euler", value |-> <<-300, 0, 0>>], [bone |-> "B_R_ForeArm", path |-> "rotation_euler", value |-> <<-150, 0, 0>>], [bone |-> "B_Spine", path |-> "rotation_euler", value |-> <<150, 100, 0>>], [bone |-> "B_Head", path |-> "rotation_euler", value |-> <<-100, 0, 0>>], [bone |-> "B_R_UpperLeg", path |-> "rotation_euler", value |-> <<250, 0, 0>>], [bone |-> "B_R_LowerLeg", path |-> "rotation_euler", value |-> <<-75, 0, 0>>], [bone |-> "B_L_UpperLeg", path |-> "rotation_euler", value |-> <<-250, 0, 0>>], [bone |-> "B_L_LowerLeg", path |-> "rotation_euler", value |-> <<0, 0, 0>>], [bone |-> "Wheel_L", path |-> "rotation_euler", value |-> <<0, 2850, 0>>], [bone |-> "Wheel_R", path |-> "rotation_euler", value |-> <<0, 2850, 0>>] >>],
         [frame |-> 25, overrides |-> << [bone |-> "A_L_UpperArm", path |-> "rotation_euler", value |-> <<-455, -193, 38>>], [bone |-> "A_L_ForeArm", path |-> "rotation_euler", value |-> <<-150, 0, 0>>], [bone |-> "A_R_UpperArm", path |-> "rotation_euler", value |-> <<-300, 0, 0>>], [bone |-> "A_R_ForeArm", path |-> "rotation_euler", value |-> <<28, -77, -501>>], [bone |-> "A_Spine", path |-> "rotation_euler", value |-> <<150, -100, 0>>], [bone |-> "A_Head", path |-> "rotation_euler", value |-> <<-100, 0, 0>>], [bone |-> "B_L_UpperArm", path |-> "rotation_euler", value |-> <<300, 0, 0>>], [bone |-> "B_L_ForeArm", path |-> "rotation_euler", value |-> <<-150, 0, 0>>], [bone |-> "B_R_UpperArm", path |-> "rotation_euler", value |-> <<-300, 0, 0>>], [bone |-> "B_R_ForeArm", path |-> "rotation_euler", value |-> <<-150, 0, 0>>], [bone |-> "B_Spine", path |-> "rotation_euler", value |-> <<150, 100, 0>>], [bone |-> "B_Head", path |-> "rotation_euler", value |-> <<-100, 0, 0>>], [bone |-> "Wheel_L", path |-> "rotation_euler", value |-> <<0, 3750, 0>>], [bone |-> "Wheel_R", path |-> "rotation_euler", value |-> <<0, 3750, 0>>] >>] >>],
   \* create_attack_anim: keyframes as (frame, set_bone_rot/set_bone_loc calls after reset_pose); degrees x10, offsets x1000
   create_attack_anim |->
      [name |-> "Attack", creates_animation_data |-> FALSE, interpolation |-> "BEZIER",
       keyframes |-> <<
         [frame |-> 1, overrides |-> << [bone |-> "A_L_UpperArm", path |-> "rotation_euler", value |-> <<-455, -193, 38>>], [bone |-> "A_L_ForeArm", path |-> "rotation_euler", value |-> <<-150, 0, 0>>], [bone |-> "A_R_UpperArm", path |-> "rotation_euler", value |-> <<-300, 0, 0>>], [bone |-> "A_R_ForeArm", path |-> "rotation_euler", value |-> <<28, -77, -501>>], [bone |-> "A_Spine", path |-> "rotation_euler", value |-> <<150, -100, 0>>], [bone |-> "A_Head", path |-> "rotation_euler", value |-> <<-100, 0, 0>>], [bone |-> "B_L_UpperArm", path |-> "rotation_euler", value |-> <<300, 0, 0>>], [bone |-> "B_L_ForeArm", path |-> "rotation_euler", value |-> <<-150, 0, 0>>], [bone |-> "B_R_UpperArm", path |-> "rotation_euler", value |-> <<-300, 0, 0>>], [bone |-> "B_R_ForeArm", path |-> "rotation_euler", value |-> <<-150, 0, 0>>], [bone |-> "B_Spine", path |-> "rotation_euler", value |-> <<150, 100, 0>>], [bone |-> "B_Head", path |-> "rotation_euler", value |-> <<-100, 0, 0>>] >>],
         [frame |-> 5, overrides |-> << [bone |-> "A_Spine", path |-> "rotation_euler", value |-> <<100, 150, 0>>], [bone |-> "A_Head", path |-> "rotation_euler", value |-> <<-50, 100, 0>>], [bone |-> "A_R_UpperArm", path |-> "rotation_euler", value |-> <<-400, 0, 0>>], [bone |-> "A_R_ForeArm", path |-> "rotation_euler", value |-> <<-200, 0, 0>>], [bone |-> "A_L_UpperArm", path |-> "rotation_euler", value |-> <<100, 0, 0>>], [bone |-> "A_L_ForeArm", path |-> "rotation_euler", value |-> <<0, 0, 0>>], [bone |-> "B_Spine", path |-> "rotation_euler", value |-> <<50, 0, 0>>], [bone |-> "B_Head", path |-> "rotation_euler", value |-> <<-50, -100, 0>>], [bone |-> "B_R_UpperArm", path |-> "rotation_euler", value |-> <<0, 0, -200>>], [bone |-> "B_L_UpperArm", path |-> "rotation_euler", value |-> <<0, 0, 200>>] >>],
         [frame |-> 9, overrides |-> << [bone |-> "A_Spine", path |-> "rotation_euler", value |-> <<150, 200, 0>>], [bone |-> "A_Head", path |-> "rotation_euler", value |-> <<-50, 150, 0>>], [bone |-> "A_R_UpperArm", path |-> "rotation_euler", value |-> <<-500, 0, -100>>], [bone |-> "A_R_ForeArm", path |-> "rotation_euler", value |-> <<-300, 0, 0>>], [bone |-> "A_L_UpperArm", path |-> "rotation_euler", value |-> <<150, 0, 0>>], [bone |-> "A_L_ForeArm", path |-> "rotation_euler", value |-> <<0, 0, 0>>], [bone |-> "B_Spine", path |-> "rotation_euler", value |-> <<-50, 0, 0>>], [bone |-> "B_Head", path |-> "rotation_euler", value |-> <<50, 0, 0>>], [bone |-> "B_R_UpperArm", path |-> "rotation_euler", value |-> <<0, 0, -700>>], [bone |-> "B_R_ForeArm", path |-> "rotation_euler", value |-> <<-400, 0, 0>>], [bone |-> "B_L_UpperArm", path |-> "rotation_euler", value |-> <<0, 0, 700>>], [bone |-> "B_L_ForeArm", path |-> "rotation_euler", value |-> <<-400, 0, 0>>] >>],
         [frame |-> 12, overrides |-> << [bone |-> "Root", path |-> "location", value |-> <<0, 60, 0>>], [bone |-> "Cannon", path |-> "rotation_euler", value |-> <<-80, 0, 0>>], [bone |-> "A_Spine", path |-> "rotation_euler", value |-> <<-100, 100, 0>>], [bone |-> "A_Head", path |-> "rotation_euler", value |-> <<100, 0, 0>>], [bone |-> "A_R_UpperArm", path |-> "rotation_euler", value |-> <<150, 0, -300>>], [bone |-> "A_R_ForeArm", path |-> "rotation_euler", value |-> <<-200, 0, 0>>], [bone |-> "A_L_UpperArm", path |-> "rotation_euler", value |-> <<150, 0, 300>>], [bone |-> "A_L_ForeArm", path |-> "rotation_euler", value |-> <<-200, 0, 0>>], [bone |-> "A_Root", path |-> "location", value |-> <<0, 40, 0>>], [bone |-> "B_Spine", path |-> "rotation_euler", value |-> <<-80, 0, 0>>], [bone |-> "B_Head", path |-> "rotation_euler", value |-> <<80, 0, 0>>], [bone |-> "B_R_UpperArm", path |-> "rotation_euler", value |-> <<0, 0, -650>>], [bone |-> "B_R_ForeArm", path |-> "rotation_euler", value |-> <<-450, 0, 0>>], [bone |-> "B_L_UpperArm", path |-> "rotation_euler", value |-> <<0, 0, 650>>], [bone |-> "B_L_ForeArm", path |-> "rotation_euler", value |-> <<-450, 0, 0>>], [bone |-> "B_Root", path |-> "location", value |-> <<0, 40, 0>>] >>],
         [frame |-> 16, overrides |-> << [bone |-> "Root", path |-> "location", value |-> <<0, 30, 0>>], [bone |-> "Cannon", path |-> "rotation_euler", value |-> <<-30, 0, 0>>], [bone |-> "A_Spine", path |-> "rotation_euler", value |-> <<-30, 0, 0>>], [bone |-> "A_Head", path |-> "rotation_euler", value |-> <<50, 0, 0>>], [bone |-> "A_Root", path |-> "location", value |-> <<0, 20, 0>>], [bone |-> "B_Spine", path |-> "rotation_euler", value |-> <<-30, 0, 0>>], [bone |-> "B_Head", path |-> "rotation_euler", value |-> <<50, 0, 0>>], [bone |-> "B_Root", path |-> "location", value |-> <<0, 20, 0>>] >>],
         [frame |-> 24, overrides |-> << [bone |-> "A_L_UpperArm", path |-> "rotation_euler", value |-> <<-455, -193, 38>>], [bone |-> "A_L_ForeArm", path |-> "rotation_euler", value |-> <<-150, 0, 0>>], [bone |-> "A_R_UpperArm", path |-> "rotation_euler", value |-> <<-300, 0, 0>>], [bone |-> "A_R_ForeArm", path |-> "rotation_euler", value |-> <<28, -77, -501>>], [bone |-> "A_Spine", path |-> "rotation_euler", value |-> <<150, -100, 0>>], [bone |-> "A_Head", path |-> "rotation_euler", value |-> <<-100, 0, 0>>], [bone |-> "B_L_UpperArm", path |-> "rotation_euler", value |-> <<300, 0, 0>>], [bone |-> "B_L_ForeArm", path |-> "rotation_euler", value |-> <<-150, 0, 0>>], [bone |-> "B_R_UpperArm", path |-> "rotation_euler", value |-> <<-300, 0, 0>>], [bone |-> "B_R_ForeArm", path |-> "rotation_euler", value |-> <<-150, 0, 0>>], [bone |-> "B_Spine", path |-> "rotation_euler", value |-> <<150, 100, 0>>], [bone |-> "B_Head", path |-> "rotation_euler", value |-> <<-100, 0, 0>>] >>] >>],
   \* create_die_anim: keyframes as (frame, set_bone_rot/set_bone_loc calls after reset_pose); degrees x10, offsets x1000
   create_die_anim |->
      [name |-> "Die", creates_animation_data |-> FALSE, interpolation |-> "BEZIER",
       keyframes |-> <<
         [frame |-> 1, overrides |-> << [bone |-> "A_L_UpperArm", path |-> "rotation_euler", value |-> <<-455, -193, 38>>], [bone |-> "A_L_ForeArm", path |-> "rotation_euler", value |-> <<-150, 0, 0>>], [bone |-> "A_R_UpperArm", path |-> "rotation_euler", value |-> <<-300, 0, 0>>], [bone |-> "A_R_ForeArm", path |-> "rotation_euler", value |-> <<28, -77, -501>>], [bone |-> "A_Spine", path |-> "rotation_euler", value |-> <<150, -100, 0>>], [bone |-> "A_Head", path |-> "rotation_euler", value |-> <<-100, 0, 0>>], [bone |-> "B_L_UpperArm", path |-> "rotation_euler", value |-> <<300, 0, 0>>], [bone |-> "B_L_ForeArm", path |-> "rotation_euler", value |-> <<-150, 0, 0>>], [bone |-> "B_R_UpperArm", path |-> "rotation_euler", value |-> <<-300, 0, 0>>], [bone |-> "B_R_ForeArm", path |-> "rotation_euler", value |-> <<-150, 0, 0>>], [bone |-> "B_Spine", path |-> "rotation_euler", value |-> <<150, 100, 0>>], [bone |-> "B_Head", path |-> "rotation_euler", value |-> <<-100, 0, 0>>] >>],
         [frame |-> 6, overrides |-> << [bone |-> "Root", path |-> "location", value |-> <<0, 20, 0>>], [bone |-> "Cannon", path |-> "rotation_euler", value |-> <<50, 0, 30>>], [bone |-> "A_Spine", path |-> "rotation_euler", value |-> <<50, 0, 0>>], [bone |-> "A_Head", path |-> "rotation_euler", value |-> <<100, 0, 50>>], [bone |-> "A_R_UpperArm", path |-> "rotation_euler", value |-> <<100, 0, 200>>], [bone |-> "A_L_UpperArm", path |-> "rotation_euler", value |-> <<100, 0, -200>>], [bone |-> "B_Spine", path |-> "rotation_euler", value |-> <<50, 0, 0>>], [bone |-> "B_Head", path |-> "rotation_euler", value |-> <<100, 0, 50>>], [bone |-> "B_R_UpperArm", path |-> "rotation_euler", value |-> <<100, 0, 200>>], [bone |-> "B_L_UpperArm", path |-> "rotation_euler", value |-> <<100, 0, -200>>] >>],
         [frame |-> 12, overrides |-> << [bone |-> "Cannon", path |-> "rotation_euler", value |-> <<100, 0, 250>>], [bone |-> "Root", path |-> "location", value |-> <<0, -20, -20>>], [bone |-> "A_Spine", path |-> "rotation_euler", value |-> <<-250, 0, 0>>], [bone |-> "A_Head", path |-> "rotation_euler", value |-> <<-150, 0, 0>>], [bone |-> "A_R_UpperArm", path |-> "rotation_euler", value |-> <<-150, 0, 350>>], [bone |-> "A_R_ForeArm", path |-> "rotation_euler", value |-> <<-150, 0, 0>>], [bone |-> "A_L_UpperArm", path |-> "rotation_euler", value |-> <<-150, 0, -350>>], [bone |-> "A_L_ForeArm", path |-> "rotation_euler", value |-> <<-150, 0, 0>>], [bone |-> "A_L_UpperLeg", path |-> "rotation_euler", value |-> <<-150, 0, 0>>], [bone |-> "A_R_UpperLeg", path |-> "rotation_euler", value |-> <<-150, 0, 0>>], [bone |-> "B_Spine", path |-> "rotation_euler", value |-> <<-250, 0, 0>>], [bone |-> "B_Head", path |-> "rotation_euler", value |-> <<-150, 0, 0>>], [bone |-> "B_R_UpperArm", path |-> "rotation_euler", value |-> <<-150, 0, 350>>], [bone |-> "B_R_ForeArm", path |-> "rotation_euler", value |-> <<-150, 0, 0>>], [bone |-> "B_L_UpperArm", path |-> "rotation_euler", value |-> <<-150, 0, -350>>], [bone |-> "B_L_ForeArm", path |-> "rotation_euler", value |-> <<-150, 0, 0>>], [bone |-> "B_L_UpperLeg", path |-> "rotation_euler", value |-> <<-150, 0, 0>>], [bone |-> "B_R_UpperLeg", path |-> "rotation_euler", value |-> <<-150, 0, 0>>], [bone |-> "A_Root", path |-> "location", value |-> <<-50, -60, -40>>], [bone |-> "B_Root", path |-> "location", value |-> <<50, -60, -40>>] >>],
         [frame |-> 20, overrides |-> << [bone |-> "Cannon", path |-> "rotation_euler", value |-> <<150, 0, 600>>], [bone |-> "Root", path |-> "location", value |-> <<0, -40, -20>>], [bone |-> "A_Spine", path |-> "rotation_euler", value |-> <<-550, -150, 0>>], [bone |-> "A_Head", path |-> "rotation_euler", value |-> <<-300, 0, -100>>], [bone |-> "A_R_UpperArm", path |-> "rotation_euler", value |-> <<-300, 0, 500>>], [bone |-> "A_R_ForeArm", path |-> "rotation_euler", value |-> <<-200, 0, 0>>], [bone |-> "A_L_UpperArm", path |-> "rotation_euler", value |-> <<-300, 0, -500>>], [bone |-> "A_L_ForeArm", path |-> "rotation_euler", value |-> <<-200, 0, 0>>], [bone |-> "A_L_UpperLeg", path |-> "rotation_euler", value |-> <<-550, 0, 0>>], [bone |-> "A_R_UpperLeg", path |-> "rotation_euler", value |-> <<-550, 0, 0>>], [bone |-> "A_Root", path |-> "location", value |-> <<-120, -140, -120>>], [bone |-> "B_Spine", path |-> "rotation_euler", value |-> <<-550, 150, 0>>], [bone |-> "B_Head", path |-> "rotation_euler", value |-> <<-300, 0, 100>>], [bone |-> "B_R_UpperArm", path |-> "rotation_euler", value |-> <<-300, 0, 500>>], [bone |-> "B_R_ForeArm", path |-> "rotation_euler", value |-> <<-200, 0, 0>>], [bone |-> "B_L_UpperArm", path |-> "rotation_euler", value |-> <<-300, 0, -500>>], [bone |-> "B_L_ForeArm", path |-> "rotation_euler", value |-> <<-200, 0, 0>>], [bone |-> "B_L_UpperLeg", path |-> "rotation_euler", value |-> <<-550, 0, 0>>], [bone |-> "B_R_UpperLeg", path |-> "rotation_euler", value |-> <<-550, 0, 0>>], [bone |-> "B_Root", path |-> "location", value |-> <<120, -140, -120>>] >>],
         [frame |-> 30, overrides |-> << [bone |-> "Cannon", path |-> "rotation_euler", value |-> <<150, 0, 850>>], [bone |-> "Root", path |-> "location", value |-> <<0, -60, 0>>], [bone |-> "A_Spine", path |-> "rotation_euler", value |-> <<-800, -250, 50>>], [bone |-> "A_Head", path |-> "rotation_euler", value |-> <<-100, 0, -150>>], [bone |-> "A_R_UpperArm", path |-> "rotation_euler", value |-> <<-300, 0, 650>>], [bone |-> "A_R_ForeArm", path |-> "rotation_euler", value |-> <<-150, 0, 0>>], [bone |-> "A_L_UpperArm", path |-> "rotation_euler", value |-> <<-300, 0, -650>>], [bone |-> "A_L_ForeArm", path |-> "rotation_euler", value |-> <<-150, 0, 0>>], [bone |-> "A_L_UpperLeg", path |-> "rotation_euler", value |-> <<-800, 0, -150>>], [bone |-> "A_R_UpperLeg", path |-> "rotation_euler", value |-> <<-800, 0, 150>>], [bone |-> "A_Root", path |-> "location", value |-> <<-200, -220, -180>>], [bone |-> "B_Spine", path |-> "rotation_euler", value |-> <<-800, 250, -50>>], [bone |-> "B_Head", path |-> "rotation_euler", value |-> <<-100, 0, 150>>], [bone |-> "B_R_UpperArm", path |-> "rotation_euler", value |-> <<-300, 0, 650>>], [bone |-> "B_R_ForeArm", path |-> "rotation_euler", value |-> <<-150, 0, 0>>], [bone |-> "B_L_UpperArm", path |-> "rotation_euler", value |-> <<-300, 0, -650>>], [bone |-> "B_L_ForeArm", path |-> "rotation_euler", value |-> <<-150, 0, 0>>], [bone |-> "B_L_UpperLeg", path |-> "rotation_euler", value |-> <<-800, 0, -150>>], [bone |-> "B_R_UpperLeg", path |-> "rotation_euler", value |-> <<-800, 0, 150>>], [bone |-> "B_Root", path |-> "location", value |-> <<200, -220, -180>>] >>] >>],
   \* main: active-clip handling around track packaging (frame 0 = no frame_set), pose-mode re-entry, camera name
   main |->
      [clear_active |-> FALSE, preview |-> "Die", preview_frame |-> 30, repose |-> TRUE, final |-> "", final_frame |-> 30, camera |-> "CannoneerCamera"]
  ]

\* generate_menial.py: what each of its functions does, by function
generate_menial ==
  [
   \* create_materials: material names in creation order
   create_materials |->
      << "MenialSkin", "MenialSkinDark", "MenialHair", "MenialEyes", "MenialMouth", "MenialTunic", "MenialTunicDk", "MenialBelt", "MenialLeather", "MenialSatchel", "MenialBoots" >>,
   \* build_body_parts: body parts in assembly order, each with the bone key it is grouped under and its primitives
   build_parts |->
      <<
          [name |-> "Grp_Spine", bone |-> "Spine", joined |-> TRUE,
          prims |-> << [name |-> "Torso", kind |-> "Cube", mat |-> "MenialSkin"], [name |-> "Tunic", kind |-> "Cube", mat |-> "MenialTunic"], [name |-> "TunicSkirt", kind |-> "Cube", mat |-> "MenialTunic"], [name |-> "Belt", kind |-> "Cube", mat |-> "MenialBelt"], [name |-> "BeltBuckle", kind |-> "Cube", mat |-> "MenialLeather"], [name |-> "Satchel", kind |-> "Cube", mat |-> "MenialSatchel"], [name |-> "Strap", kind |-> "Cube", mat |-> "MenialLeather"] >>],
          [name |-> "Grp_Head", bone |-> "Head", joined |-> TRUE,
          prims |-> << [name |-> "Head", kind |-> "Cube", mat |-> "MenialSkin"], [name |-> "HairTop", kind |-> "Cube", mat |-> "MenialHair"], [name |-> "HairBack", kind |-> "Cube", mat |-> "MenialHair"], [name |-> "EyeL", kind |-> "Cube", mat |-> "MenialEyes"], [name |-> "EyeR", kind |-> "Cube", mat |-> "MenialEyes"], [name |-> "Nose", kind |-> "Cube", mat |-> "MenialSkinDark"], [name |-> "Mouth", kind |-> "Cube", mat |-> "MenialMouth"], [name |-> "EarL", kind |-> "Cube", mat |-> "MenialSkinDark"], [name |-> "EarR", kind |-> "Cube", mat |-> "MenialSkinDark"] >>],
          [name |-> "Grp_L_UpperArm", bone |-> "L_UpperArm", joined |-> TRUE,
          prims |-> << [name |-> "ArmLU", kind |-> "Cube", mat |-> "MenialTunic"] >>],
          [name |-> "Grp_L_ForeArm", bone |-> "L_ForeArm", joined |-> TRUE,
          prims |-> << [name |-> "ArmLL", kind |-> "Cube", mat |-> "MenialSkin"], [name |-> "HandL", kind |-> "Cube", mat |-> "MenialSkinDark"] >>],
          [name |-> "Grp_R_UpperArm", bone |-> "R_UpperArm", joined |-> TRUE,
          prims |-> << [name |-> "ArmRU", kind |-> "Cube", mat |-> "MenialTunic"] >>],
          [name |-> "Grp_R_ForeArm", bone |-> "R_ForeArm", joined |-> TRUE,
          prims |-> << [name |-> "ArmRL", kind |-> "Cube", mat |-> "MenialSkin"], [name |-> "HandR", kind |-> "Cube", mat |-> "MenialSkinDark"] >>],
          [name |-> "LegLU", bone |-> "L_UpperLeg", joined |-> FALSE,
          prims |-> << [name |-> "LegLU", kind |-> "Cube", mat |-> "MenialTunicDk"] >>],
          [name |-> "Grp_L_LowerLeg", bone |-> "L_LowerLeg", joined |-> TRUE,
          prims |-> << [name |-> "LegLL", kind |-> "Cube", mat |-> "MenialSkin"], [name |-> "BootL", kind |-> "Cube", mat |-> "MenialBoots"] >>],
          [name |-> "LegRU", bone |-> "R_UpperLeg", joined |-> FALSE,
          prims |-> << [name |-> "LegRU", kind |-> "Cube", mat |-> "MenialTunicDk"] >>],
          [name |-> "Grp_R_LowerLeg", bone |-> "R_LowerLeg", joined |-> TRUE,
          prims |-> << [name |-> "LegRL", kind |-> "Cube", mat |-> "MenialSkin"], [name |-> "BootR", kind |-> "Cube", mat |-> "MenialBoots"] >>] >>,
   \* create_armature: add_bone calls in order; head/tail in 1/100 units
   create_armature |->
      [obj |-> "MenialArmature", data |-> "MenialRig",
       bones |-> <<
         [name |-> "Root", head |-> <<0, 0, 26>>, tail |-> <<0, 0, 30>>, parent |-> "", connect |-> FALSE],
         [name |-> "Spine", head |-> <<0, 0, 26>>, tail |-> <<0, 0, 52>>, parent |-> "Root", connect |-> TRUE],
         [name |-> "Head", head |-> <<0, 0, 52>>, tail |-> <<0, 0, 70>>, parent |-> "Spine", connect |-> TRUE],
         [name |-> "L_UpperArm", head |-> <<-11, 0, 50>>, tail |-> <<-15, 0, 46>>, parent |-> "Spine", connect |-> FALSE],
         [name |-> "L_ForeArm", head |-> <<-15, 0, 46>>, tail |-> <<-16, 0, 30>>, parent |-> "L_UpperArm", connect |-> TRUE],
         [name |-> "R_UpperArm", head |-> <<11, 0, 50>>, tail |-> <<15, 0, 46>>, parent |-> "Spine", connect |-> FALSE],
         [name |-> "R_ForeArm", head |-> <<15, 0, 46>>, tail |-> <<16, 0, 30>>, parent |-> "R_UpperArm", connect |-> TRUE],
         [name |-> "L_UpperLeg", head |-> <<-6, 0, 26>>, tail |-> <<-6, 0, 14>>, parent |-> "Root", connect |-> FALSE],
         [name |-> "L_LowerLeg", head |-> <<-6, 0, 14>>, tail |-> <<-6, 0, 3>>, parent |-> "L_UpperLeg", connect |-> TRUE],
         [name |-> "R_UpperLeg", head |-> <<6, 0, 26>>, tail |-> <<6, 0, 14>>, parent |-> "Root", connect |-> FALSE],
         [name |-> "R_LowerLeg", head |-> <<6, 0, 14>>, tail |-> <<6, 0, 3>>, parent |-> "R_UpperLeg", connect |-> TRUE] >>],
   \* create_walk_cycle: keyframes as (frame, set_bone_rot/set_bone_loc calls after reset_pose); degrees x10, offsets x1000
   create_walk_cycle |->
      [name |-> "Walk", creates_animation_data |-> TRUE, interpolation |-> "LINEAR",
       keyframes |-> <<
         [frame |-> 1, overrides |-> <<  >>],
         [frame |-> 7, overrides |-> << [bone |-> "L_UpperLeg", path |-> "rotation_euler", value |-> <<300, 0, 0>>], [bone |-> "L_LowerLeg", path |-> "rotation_euler", value |-> <<-90, 0, 0>>], [bone |-> "R_UpperLeg", path |-> "rotation_euler", value |-> <<-300, 0, 0>>], [bone |-> "R_LowerLeg", path |-> "rotation_euler", value |-> <<0, 0, 0>>], [bone |-> "R_UpperArm", path |-> "rotation_euler", value |-> <<200, 0, 0>>], [bone |-> "R_ForeArm", path |-> "rotation_euler", value |-> <<-80, 0, 0>>], [bone |-> "L_UpperArm", path |-> "rotation_euler", value |-> <<-200, 0, 0>>], [bone |-> "L_ForeArm", path |-> "rotation_euler", value |-> <<0, 0, 0>>], [bone |-> "Root", path |-> "location", value |-> <<0, 0, 20>>], [bone |-> "Spine", path |-> "rotation_euler", value |-> <<0, 0, 30>>] >>],
         [frame |-> 13, overrides |-> <<  >>],
         [frame |-> 19, overrides |-> << [bone |-> "R_UpperLeg", path |-> "rotation_euler", value |-> <<300, 0, 0>>], [bone |-> "R_LowerLeg", path |-> "rotation_euler", value |-> <<-90, 0, 0>>], [bone |-> "L_UpperLeg", path |-> "rotation_euler", value |-> <<-300, 0, 0>>], [bone |-> "L_LowerLeg", path |-> "rotation_euler", value |-> <<0, 0, 0>>], [bone |-> "L_UpperArm", path |-> "rotation_euler", value |-> <<200, 0, 0>>], [bone |-> "L_ForeArm", path |-> "rotation_euler", value |-> <<-80, 0, 0>>], [bone |-> "R_UpperArm", path |-> "rotation_euler", value |-> <<-200, 0, 0>>], [bone |-> "R_ForeArm", path |-> "rotation_euler", value |-> <<0, 0, 0>>], [bone |-> "Root", path |-> "location", value |-> <<0, 0, 20>>], [bone |-> "Spine", path |-> "rotation_euler", value |-> <<0, 0, -30>>] >>],
         [frame |-> 25, overrides |-> <<  >>] >>],
   \* create_attack_anim: keyframes as (frame, set_bone_rot/set_bone_loc calls after reset_pose); degrees x10, offsets x1000
   create_attack_anim |->
      [name |-> "Attack", creates_animation_data |-> FALSE, interpolation |-> "BEZIER",
       keyframes |-> <<
         [frame |-> 1, overrides |-> <<  >>],
         [frame |-> 5, overrides |-> << [bone |-> "Spine", path |-> "rotation_euler", value |-> <<350, 0, 0>>], [bone |-> "Head", path |-> "rotation_euler", value |-> <<-150, 0, 0>>], [bone |-> "R_UpperArm", path |-> "rotation_euler", value |-> <<300, 0, 0>>], [bone |-> "R_ForeArm", path |-> "rotation_euler", value |-> <<150, 0, 0>>], [bone |-> "L_UpperArm", path |-> "rotation_euler", value |-> <<300, 0, 0>>], [bone |-> "L_ForeArm", path |-> "rotation_euler", value |-> <<150, 0, 0>>], [bone |-> "Root", path |-> "location", value |-> <<0, -40, 0>>], [bone |-> "L_UpperLeg", path |-> "rotation_euler", value |-> <<150, 0, 0>>], [bone |-> "L_LowerLeg", path |-> "rotation_euler", value |-> <<-200, 0, 0>>], [bone |-> "R_UpperLeg", path |-> "rotation_euler", value |-> <<150, 0, 0>>], [bone |-> "R_LowerLeg", path |-> "rotation_euler", value |-> <<-200, 0, 0>>] >>],
         [frame |-> 9, overrides |-> << [bone |-> "Spine", path |-> "rotation_euler", value |-> <<500, 0, 0>>], [bone |-> "Head", path |-> "rotation_euler", value |-> <<-200, 0, 0>>], [bone |-> "R_UpperArm", path |-> "rotation_euler", value |-> <<450, 0, 100>>], [bone |-> "R_ForeArm", path |-> "rotation_euler", value |-> <<250, 0, 0>>], [bone |-> "L_UpperArm", path |-> "rotation_euler", value |-> <<450, 0, -100>>], [bone |-> "L_ForeArm", path |-> "rotation_euler", value |-> <<250, 0, 0>>], [bone |-> "Root", path |-> "location", value |-> <<0, -60, -20>>], [bone |-> "L_UpperLeg", path |-> "rotation_euler", value |-> <<250, 0, 0>>], [bone |-> "L_LowerLeg", path |-> "rotation_euler", value |-> <<-350, 0, 0>>], [bone |-> "R_UpperLeg", path |-> "rotation_euler", value |-> <<250, 0, 0>>], [bone |-> "R_LowerLeg", path |-> "rotation_euler", value |-> <<-350, 0, 0>>] >>],
         [frame |-> 14, overrides |-> << [bone |-> "Spine", path |-> "rotation_euler", value |-> <<150, 0, 0>>], [bone |-> "Head", path |-> "rotation_euler", value |-> <<-50, 0, 0>>], [bone |-> "R_UpperArm", path |-> "rotation_euler", value |-> <<100, 0, 100>>], [bone |-> "R_ForeArm", path |-> "rotation_euler", value |-> <<-200, 0, 0>>], [bone |-> "L_UpperArm", path |-> "rotation_euler", value |-> <<100, 0, -100>>], [bone |-> "L_ForeArm", path |-> "rotation_euler", value |-> <<-200, 0, 0>>], [bone |-> "Root", path |-> "location", value |-> <<0, -20, 0>>] >>],
         [frame |-> 20, overrides |-> <<  >>] >>],
   \* create_die_anim: keyframes as (frame, set_bone_rot/set_bone_loc calls after reset_pose); degrees x10, offsets x1000
   create_die_anim |->
      [name |-> "Die", creates_animation_data |-> FALSE, interpolation |-> "BEZIER",
       keyframes |-> <<
         [frame |-> 1, overrides |-> <<  >>],
         [frame |-> 6, overrides |-> << [bone |-> "Spine", path |-> "rotation_euler", value |-> <<150, 0, 0>>], [bone |-> "Head", path |-> "rotation_euler", value |-> <<100, 0, 50>>], [bone |-> "R_UpperArm", path |-> "rotation_euler", value |-> <<100, 0, 200>>], [bone |-> "L_UpperArm", path |-> "rotation_euler", value |-> <<100, 0, -200>>], [bone |-> "Root", path |-> "location", value |-> <<0, -20, 0>>] >>],
         [frame |-> 12, overrides |-> << [bone |-> "Spine", path |-> "rotation_euler", value |-> <<-200, 0, 30>>], [bone |-> "Head", path |-> "rotation_euler", value |-> <<-150, 0, -50>>], [bone |-> "R_UpperArm", path |-> "rotation_euler", value |-> <<-200, 0, 300>>], [bone |-> "R_ForeArm", path |-> "rotation_euler", value |-> <<-200, 0, 0>>], [bone |-> "L_UpperArm", path |-> "rotation_euler", value |-> <<-200, 0, -300>>], [bone |-> "L_ForeArm", path |-> "rotation_euler", value |-> <<-200, 0, 0>>], [bone |-> "L_UpperLeg", path |-> "rotation_euler", value |-> <<-200, 0, 0>>], [bone |-> "R_UpperLeg", path |-> "rotation_euler", value |-> <<-200, 0, 0>>], [bone |-> "Root", path |-> "location", value |-> <<0, -50, 50>>] >>],
         [frame |-> 20, overrides |-> << [bone |-> "Spine", path |-> "rotation_euler", value |-> <<-500, 0, 50>>], [bone |-> "Head", path |-> "rotation_euler", value |-> <<-300, 0, -100>>], [bone |-> "R_UpperArm", path |-> "rotation_euler", value |-> <<-400, 0, 450>>], [bone |-> "R_ForeArm", path |-> "rotation_euler", value |-> <<-300, 0, 0>>], [bone |-> "L_UpperArm", path |-> "rotation_euler", value |-> <<-400, 0, -450>>], [bone |-> "L_ForeArm", path |-> "rotation_euler", value |-> <<-300, 0, 0>>], [bone |-> "L_UpperLeg", path |-> "rotation_euler", value |-> <<-500, 0, 0>>], [bone |-> "R_UpperLeg", path |-> "rotation_euler", value |-> <<-500, 0, 0>>], [bone |-> "Root", path |-> "location", value |-> <<0, -200, 150>>] >>],
         [frame |-> 30, overrides |-> << [bone |-> "Spine", path |-> "rotation_euler", value |-> <<-800, 0, 50>>], [bone |-> "Head", path |-> "rotation_euler", value |-> <<-400, 0, -150>>], [bone |-> "R_UpperArm", path |-> "rotation_euler", value |-> <<-300, 0, 600>>], [bone |-> "R_ForeArm", path |-> "rotation_euler", value |-> <<-200, 0, 0>>], [bone |-> "L_UpperArm", path |-> "rotation_euler", value |-> <<-300, 0, -600>>], [bone |-> "L_ForeArm", path |-> "rotation_euler", value |-> <<-200, 0, 0>>], [bone |-> "L_UpperLeg", path |-> "rotation_euler", value |-> <<-800, 0, 0>>], [bone |-> "R_UpperLeg", path |-> "rotation_euler", value |-> <<-800, 0, 0>>], [bone |-> "Root", path |-> "location", value |-> <<0, -350, 300>>] >>] >>],
   \* main: active-clip handling around track packaging (frame 0 = no frame_set), pose-mode re-entry, camera name
   main |->
      [clear_active |-> FALSE, preview |-> "Die", preview_frame |-> 30, repose |-> TRUE, final |-> "", final_frame |-> 30, camera |-> "MenialCamera"]
  ]

\* generate_orc_war_boss.py: what each of its functions does, by function
generate_orc_war_boss ==
  [
   \* create_materials: material names in creation order
   create_materials |->
      << "BossSkin", "BossSkinDark", "BossMouth", "BossEyes", "BossTeeth", "BossCloth", "BossFur", "BossArmor", "BossArmorDk", "BossGold", "BossWood" >>,
   \* build_body_parts: body parts in assembly order, each with the bone key it is grouped under and its primitives
   build_parts |->
      <<
          [name |-> "Grp_Spine", bone |-> "Spine", joined |-> TRUE,
          prims |-> << [name |-> "Torso", kind |-> "Cube", mat |-> "BossSkin"], [name |-> "ChestPlate", kind |-> "Cube", mat |-> "BossArmor"], [name |-> "ChestRidge", kind |-> "Cube", mat |-> "BossGold"], [name |-> "BackPlate", kind |-> "Cube", mat |-> "BossArmorDk"], [name |-> "FurMantle", kind |-> "Cube", mat |-> "BossFur"], [name |-> "Belt", kind |-> "Cube", mat |-> "BossArmorDk"], [name |-> "BeltSkull", kind |-> "Sphere", mat |-> "BossGold"], [name |-> "Loincloth", kind |-> "Cube", mat |-> "BossCloth"], [name |-> "LoinclothBack", kind |-> "Cube", mat |-> "BossCloth"] >>],
          [name |-> "Grp_Head", bone |-> "Head", joined |-> TRUE,
          prims |-> << [name |-> "Head", kind |-> "Cube", mat |-> "BossSkin"], [name |-> "Brow", kind |-> "Cube", mat |-> "BossSkinDark"], [name |-> "EyeL", kind |-> "Cube", mat |-> "BossEyes"], [name |-> "EyeR", kind |-> "Cube", mat |-> "BossEyes"], [name |-> "Nose", kind |-> "Cube", mat |-> "BossSkinDark"], [name |-> "Jaw", kind |-> "Cube", mat |-> "BossSkin"], [name |-> "Mouth", kind |-> "Cube", mat |-> "BossMouth"], [name |-> "TuskL", kind |-> "Cone", mat |-> "BossTeeth"], [name |-> "TuskR", kind |-> "Cone", mat |-> "BossTeeth"], [name |-> "EarL", kind |-> "Cone", mat |-> "BossSkinDark"], [name |-> "EarR", kind |-> "Cone", mat |-> "BossSkinDark"], [name |-> "HelmetBand", kind |-> "Cube", mat |-> "BossArmor"], [name |-> "Spike1", kind |-> "Cone", mat |-> "BossArmor"], [name |-> "Spike2", kind |-> "Cone", mat |-> "BossArmor"], [name |-> "Spike3", kind |-> "Cone", mat |-> "BossArmor"] >>],
          [name |-> "Grp_L_UpperArm", bone |-> "L_UpperArm", joined |-> TRUE,
          prims |-> << [name |-> "ArmLU", kind |-> "Cube", mat |-> "BossSkin"], [name |-> "PauldronL", kind |-> "Cube", mat |-> "BossArmor"], [name |-> "PauldronSpikeL", kind |-> "Cone", mat |-> "BossArmor"] >>],
          [name |-> "Grp_L_ForeArm", bone |-> "L_ForeArm", joined |-> TRUE,
          prims |-> << [name |-> "ArmLL", kind |-> "Cube", mat |-> "BossSkin"], [name |-> "BracerL", kind |-> "Cube", mat |-> "BossArmorDk"], [name |-> "FistL", kind |-> "Cube", mat |-> "BossSkinDark"] >>],
          [name |-> "Grp_R_UpperArm", bone |-> "R_UpperArm", joined |-> TRUE,
          prims |-> << [name |-> "ArmRU", kind |-> "Cube", mat |-> "BossSkin"], [name |-> "PauldronR", kind |-> "Cube", mat |-> "BossArmor"], [name |-> "PauldronSpikeR", kind |-> "Cone", mat |-> "BossArmor"] >>],
          [name |-> "Grp_R_ForeArm", bone |-> "R_ForeArm", joined |-> TRUE,
          prims |-> << [name |-> "ArmRL", kind |-> "Cube", mat |-> "BossSkin"], [name |-> "BracerR", kind |-> "Cube", mat |-> "BossArmorDk"], [name |-> "FistR", kind |-> "Cube", mat |-> "BossSkinDark"], [name |-> "HammerShaft", kind |-> "Cylinder", mat |-> "BossWood"], [name |-> "HammerGrip", kind |-> "Cylinder", mat |-> "BossCloth"], [name |-> "HammerHead", kind |-> "Cube", mat |-> "BossArmor"], [name |-> "HammerBand1", kind |-> "Cube", mat |-> "BossArmorDk"], [name |-> "HammerBand2", kind |-> "Cube", mat |-> "BossArmorDk"], [name |-> "HammerSpike", kind |-> "Cone", mat |-> "BossArmor"] >>],
          [name |-> "Grp_L_UpperLeg", bone |-> "L_UpperLeg", joined |-> TRUE,
          prims |-> << [name |-> "LegLU", kind |-> "Cube", mat |-> "BossSkin"], [name |-> "ThighArmorL", kind |-> "Cube", mat |-> "BossArmorDk"] >>],
          [name |-> "Grp_L_LowerLeg", bone |-> "L_LowerLeg", joined |-> TRUE,
          prims |-> << [name |-> "LegLL", kind |-> "Cube", mat |-> "BossSkin"], [name |-> "ShinGuardL", kind |-> "Cube", mat |-> "BossArmorDk"], [name |-> "BootL", kind |-> "Cube", mat |-> "BossArmorDk"] >>],
          [name |-> "Grp_R_UpperLeg", bone |-> "R_UpperLeg", joined |-> TRUE,
          prims |-> << [name |-> "LegRU", kind |-> "Cube", mat |-> "BossSkin"], [name |-> "ThighArmorR", kind |-> "Cube", mat |-> "BossArmorDk"] >>],
          [name |-> "Grp_R_LowerLeg", bone |-> "R_LowerLeg", joined |-> TRUE,
          prims |-> << [name |-> "LegRL", kind |-> "Cube", mat |-> "BossSkin"], [name |-> "ShinGuardR", kind |-> "Cube", mat |-> "BossArmorDk"], [name |-> "BootR", kind |-> "Cube", mat |-> "BossArmorDk"] >>] >>,
   \* create_armature: add_bone calls in order; head/tail in 1/100 units
   create_armature |->
      [obj |-> "WarBossArmature", data |-> "WarBossRig",
       bones |-> <<
         [name |-> "Root", head |-> <<0, 0, 36>>, tail |-> <<0, 0, 40>>, parent |-> "", connect |-> FALSE],
         [name |-> "Spine", head |-> <<0, 0, 36>>, tail |-> <<0, 0, 60>>, parent |-> "Root", connect |-> TRUE],
         [name |-> "Head", head |-> <<0, 0, 60>>, tail |-> <<0, 0, 78>>, parent |-> "Spine", connect |-> TRUE],
         [name |-> "L_UpperArm", head |-> <<-16, 0, 58>>, tail |-> <<-22, 0, 54>>, parent |-> "Spine", connect |-> FALSE],
         [name |-> "L_ForeArm", head |-> <<-22, 0, 54>>, tail |-> <<-24, 0, 36>>, parent |-> "L_UpperArm", connect |-> TRUE],
         [name |-> "R_UpperArm", head |-> <<16, 0, 58>>, tail |-> <<22, 0, 54>>, parent |-> "Spine", connect |-> FALSE],
         [name |-> "R_ForeArm", head |-> <<22, 0, 54>>, tail |-> <<24, 0, 36>>, parent |-> "R_UpperArm", connect |-> TRUE],
         [name |-> "L_UpperLeg", head |-> <<-10, 0, 36>>, tail |-> <<-10, 0, 22>>, parent |-> "Root", connect |-> FALSE],
         [name |-> "L_LowerLeg", head |-> <<-10, 0, 22>>, tail |-> <<-10, 0, 6>>, parent |-> "L_UpperLeg", connect |-> TRUE],
         [name |-> "R_UpperLeg", head |-> <<10, 0, 36>>, tail |-> <<10, 0, 22>>, parent |-> "Root", connect |-> FALSE],
         [name |-> "R_LowerLeg", head |-> <<10, 0, 22>>, tail |-> <<10, 0, 6>>, parent |-> "R_UpperLeg", connect |-> TRUE] >>],
   \* create_walk_cycle: keyframes as (frame, set_bone_rot/set_bone_loc calls after reset_pose); degrees x10, offsets x1000
   create_walk_cycle |->
      [name |-> "Walk", creates_animation_data |-> TRUE, interpolation |-> "LINEAR",
       keyframes |-> <<
         [frame |-> 1, overrides |-> <<  >>],
         [frame |-> 7, overrides |-> << [bone |-> "L_UpperLeg", path |-> "rotation_euler", value |-> <<220, 0, 0>>], [bone |-> "L_LowerLeg", path |-> "rotation_euler", value |-> <<-66, 0, 0>>], [bone |-> "R_UpperLeg", path |-> "rotation_euler", value |-> <<-220, 0, 0>>], [bone |-> "R_LowerLeg", path |-> "rotation_euler", value |-> <<0, 0, 0>>], [bone |-> "R_UpperArm", path |-> "rotation_euler", value |-> <<120, 0, 0>>], [bone |-> "R_ForeArm", path |-> "rotation_euler", value |-> <<-48, 0, 0>>], [bone |-> "L_UpperArm", path |-> "rotation_euler", value |-> <<-120, 0, 0>>], [bone |-> "L_ForeArm", path |-> "rotation_euler", value |-> <<0, 0, 0>>], [bone |-> "Root", path |-> "location", value |-> <<0, 0, 20>>], [bone |-> "Spine", path |-> "rotation_euler", value |-> <<0, 0, 30>>] >>],
         [frame |-> 13, overrides |-> <<  >>],
         [frame |-> 19, overrides |-> << [bone |-> "R_UpperLeg", path |-> "rotation_euler", value |-> <<220, 0, 0>>], [bone |-> "R_LowerLeg", path |-> "rotation_euler", value |-> <<-66, 0, 0>>], [bone |-> "L_UpperLeg", path |-> "rotation_euler", value |-> <<-220, 0, 0>>], [bone |-> "L_LowerLeg", path |-> "rotation_euler", value |-> <<0, 0, 0>>], [bone |-> "L_UpperArm", path |-> "rotation_euler", value |-> <<120, 0, 0>>], [bone |-> "L_ForeArm", path |-> "rotation_euler", value |-> <<-48, 0, 0>>], [bone |-> "R_UpperArm", path |-> "rotation_euler", value |-> <<-120, 0, 0>>], [bone |-> "R_ForeArm", path |-> "rotation_euler", value |-> <<0, 0, 0>>], [bone |-> "Root", path |-> "location", value |-> <<0, 0, 20>>], [bone |-> "Spine", path |-> "rotation_euler", value |-> <<0, 0, -30>>] >>],
         [frame |-> 25, overrides |-> <<  >>] >>],
   \* create_attack_anim: keyframes as (frame, set_bone_rot/set_bone_loc calls after reset_pose); degrees x10, offsets x1000
   create_attack_anim |->
      [name |-> "Attack", creates_animation_data |-> FALSE, interpolation |-> "BEZIER",
       keyframes |-> <<
         [frame |-> 1, overrides |-> <<  >>],
         [frame |-> 5, overrides |-> << [bone |-> "R_UpperArm", path |-> "rotation_euler", value |-> <<0, 0, -700>>], [bone |-> "R_ForeArm", path |-> "rotation_euler", value |-> <<-300, 0, 0>>], [bone |-> "Spine", path |-> "rotation_euler", value |-> <<0, 0, -50>>], [bone |-> "Head", path |-> "rotation_euler", value |-> <<0, 0, 0>>] >>],
         [frame |-> 8, overrides |-> << [bone |-> "R_UpperArm", path |-> "rotation_euler", value |-> <<0, 0, -850>>], [bone |-> "R_ForeArm", path |-> "rotation_euler", value |-> <<-400, 0, 0>>], [bone |-> "Spine", path |-> "rotation_euler", value |-> <<-50, 0, -80>>], [bone |-> "Head", path |-> "rotation_euler", value |-> <<50, 0, 0>>] >>],
         [frame |-> 11, overrides |-> << [bone |-> "R_UpperArm", path |-> "rotation_euler", value |-> <<150, 0, 300>>], [bone |-> "R_ForeArm", path |-> "rotation_euler", value |-> <<200, 0, 0>>], [bone |-> "Spine", path |-> "rotation_euler", value |-> <<80, 0, 50>>], [bone |-> "Head", path |-> "rotation_euler", value |-> <<-50, 0, 0>>], [bone |-> "Root", path |-> "location", value |-> <<0, -20, -30>>] >>],
         [frame |-> 14, overrides |-> << [bone |-> "R_UpperArm", path |-> "rotation_euler", value |-> <<100, 0, 250>>], [bone |-> "R_ForeArm", path |-> "rotation_euler", value |-> <<150, 0, 0>>], [bone |-> "Spine", path |-> "rotation_euler", value |-> <<50, 0, 30>>], [bone |-> "Root", path |-> "location", value |-> <<0, -20, -20>>] >>],
         [frame |-> 20, overrides |-> <<  >>] >>],
   \* create_die_anim: keyframes as (frame, set_bone_rot/set_bone_loc calls after reset_pose); degrees x10, offsets x1000
   create_die_anim |->
      [name |-> "Die", creates_animation_data |-> FALSE, interpolation |-> "BEZIER",
       keyframes |-> <<
         [frame |-> 1, overrides |-> <<  >>],
         [frame |-> 6, overrides |-> << [bone |-> "Spine", path |-> "rotation_euler", value |-> <<150, 0, 0>>], [bone |-> "Head", path |-> "rotation_euler", value |-> <<100, 0, 50>>], [bone |-> "R_UpperArm", path |-> "rotation_euler", value |-> <<100, 0, 200>>], [bone |-> "L_UpperArm", path |-> "rotation_euler", value |-> <<100, 0, -200>>], [bone |-> "Root", path |-> "location", value |-> <<0, -20, 0>>] >>],
         [frame |-> 12, overrides |-> << [bone |-> "Spine", path |-> "rotation_euler", value |-> <<-200, 0, 30>>], [bone |-> "Head", path |-> "rotation_euler", value |-> <<-150, 0, -50>>], [bone |-> "R_UpperArm", path |-> "rotation_euler", value |-> <<-200, 0, 300>>], [bone |-> "R_ForeArm", path |-> "rotation_euler", value |-> <<-200, 0, 0>>], [bone |-> "L_UpperArm", path |-> "rotation_euler", value |-> <<-200, 0, -300>>], [bone |-> "L_ForeArm", path |-> "rotation_euler", value |-> <<-200, 0, 0>>], [bone |-> "L_UpperLeg", path |-> "rotation_euler", value |-> <<-200, 0, 0>>], [bone |-> "R_UpperLeg", path |-> "rotation_euler", value |-> <<-200, 0, 0>>], [bone |-> "Root", path |-> "location", value |-> <<0, -50, 50>>] >>],
         [frame |-> 20, overrides |-> << [bone |-> "Spine", path |-> "rotation_euler", value |-> <<-500, 0, 50>>], [bone |-> "Head", path |-> "rotation_euler", value |-> <<-300, 0, -100>>], [bone |-> "R_UpperArm", path |-> "rotation_euler", value |-> <<-400, 0, 450>>], [bone |-> "R_ForeArm", path |-> "rotation_euler", value |-> <<-300, 0, 0>>], [bone |-> "L_UpperArm", path |-> "rotation_euler", value |-> <<-400, 0, -450>>], [bone |-> "L_ForeArm", path |-> "rotation_euler", value |-> <<-300, 0, 0>>], [bone |-> "L_UpperLeg", path |-> "rotation_euler", value |-> <<-500, 0, 0>>], [bone |-> "R_UpperLeg", path |-> "rotation_euler", value |-> <<-500, 0, 0>>], [bone |-> "Root", path |-> "location", value |-> <<0, -200, 150>>] >>],
         [frame |-> 30, overrides |-> << [bone |-> "Spine", path |-> "rotation_euler", value |-> <<-940, 12, 49>>], [bone |-> "Head", path |-> "rotation_euler", value |-> <<13, 118, -353>>], [bone |-> "L_UpperArm", path |-> "rotation_euler", value |-> <<216, 291, 82>>], [bone |-> "L_ForeArm", path |-> "rotation_euler", value |-> <<76, -175, 72>>], [bone |-> "R_UpperArm", path |-> "rotation_euler", value |-> <<212, -255, 57>>], [bone |-> "R_ForeArm", path |-> "rotation_euler", value |-> <<64, -455, -246>>], [bone |-> "L_UpperLeg", path |-> "rotation_euler", value |-> <<-800, 216, 0>>], [bone |-> "R_UpperLeg", path |-> "rotation_euler", value |-> <<-886, -378, 0>>], [bone |-> "Root", path |-> "location", value |-> <<0, -350, 300>>] >>] >>],
   \* main: active-clip handling around track packaging (frame 0 = no frame_set), pose-mode re-entry, camera name
   main |->
      [clear_active |-> FALSE, preview |-> "Die", preview_frame |-> 30, repose |-> TRUE, final |-> "", final_frame |-> 30, camera |-> "WarBossCamera"]
  ]

\* generate_pikeman.py: what each of its functions does, by function
generate_pikeman ==
  [
   \* create_materials: material names in creation order
   create_materials |->
      << "PikemanSkin", "PikemanSkinDark", "PikemanHair", "PikemanEyes", "PikemanMouth", "PikemanTunic", "PikemanTunicDk", "PikemanChain", "PikemanBelt", "PikemanLeather", "PikemanBoots", "PikemanMetal", "PikemanWood" >>,
   \* build_body_parts: body parts in assembly order, each with the bone key it is grouped under and its primitives
   build_parts |->
      <<
          [name |-> "Grp_Spine", bone |-> "Spine", joined |-> TRUE,
          prims |-> << [name |-> "Torso", kind |-> "Cube", mat |-> "PikemanSkin"], [name |-> "Tunic", kind |-> "Cube", mat |-> "PikemanTunic"], [name |-> "ChainVest", kind |-> "Cube", mat |-> "PikemanChain"], [name |-> "TunicSkirt", kind |-> "Cube", mat |-> "PikemanTunic"], [name |-> "Belt", kind |-> "Cube", mat |-> "PikemanBelt"], [name |-> "BeltBuckle", kind |-> "Cube", mat |-> "PikemanMetal"] >>],
          [name |-> "Grp_Head", bone |-> "Head", joined |-> TRUE,
          prims |-> << [name |-> "Head", kind |-> "Cube", mat |-> "PikemanSkin"], [name |-> "HairBack", kind |-> "Cube", mat |-> "PikemanHair"], [name |-> "HelmetCap", kind |-> "Cube", mat |-> "PikemanMetal"], [name |-> "NoseGuard", kind |-> "Cube", mat |-> "PikemanMetal"], [name |-> "EyeL", kind |-> "Cube", mat |-> "PikemanEyes"], [name |-> "EyeR", kind |-> "Cube", mat |-> "PikemanEyes"], [name |-> "Nose", kind |-> "Cube", mat |-> "PikemanSkinDark"], [name |-> "Mouth", kind |-> "Cube", mat |-> "PikemanMouth"], [name |-> "EarL", kind |-> "Cube", mat |-> "PikemanSkinDark"], [name |-> "EarR", kind |-> "Cube", mat |-> "PikemanSkinDark"] >>],
          [name |-> "Grp_L_UpperArm", bone |-> "L_UpperArm", joined |-> TRUE,
          prims |-> << [name |-> "ArmLU", kind |-> "Cube", mat |-> "PikemanTunic"], [name |-> "ChainArmL", kind |-> "Cube", mat |-> "PikemanChain"] >>],
          [name |-> "Grp_L_ForeArm", bone |-> "L_ForeArm", joined |-> TRUE,
          prims |-> << [name |-> "ArmLL", kind |-> "Cube", mat |-> "PikemanSkin"], [name |-> "BracerL", kind |-> "Cube", mat |-> "PikemanLeather"] >>],
          [name |-> "HandL", bone |-> "L_Hand", joined |-> FALSE,
          prims |-> << [name |-> "HandL", kind |-> "Cube", mat |-> "PikemanSkinDark"] >>],
          [name |-> "Grp_R_UpperArm", bone |-> "R_UpperArm", joined |-> TRUE,
          prims |-> << [name |-> "ArmRU", kind |-> "Cube", mat |-> "PikemanTunic"], [name |-> "ChainArmR", kind |-> "Cube", mat |-> "PikemanChain"] >>],
          [name |-> "Grp_R_ForeArm", bone |-> "R_ForeArm", joined |-> TRUE,
          prims |-> << [name |-> "ArmRL", kind |-> "Cube", mat |-> "PikemanSkin"], [name |-> "BracerR", kind |-> "Cube", mat |-> "PikemanLeather"] >>],
          [name |-> "Grp_R_Hand", bone |-> "R_Hand", joined |-> TRUE,
          prims |-> << [name |-> "HandR", kind |-> "Cube", mat |-> "PikemanSkinDark"], [name |-> "PikeShaft", kind |-> "Cylinder", mat |-> "PikemanWood"], [name |-> "PikeHead", kind |-> "Cone", mat |-> "PikemanMetal"], [name |-> "PikeCross", kind |-> "Cube", mat |-> "PikemanMetal"] >>],
          [name |-> "LegLU", bone |-> "L_UpperLeg", joined |-> FALSE,
          prims |-> << [name |-> "LegLU", kind |-> "Cube", mat |-> "PikemanTunicDk"] >>],
          [name |-> "Grp_L_LowerLeg", bone |-> "L_LowerLeg", joined |-> TRUE,
          prims |-> << [name |-> "LegLL", kind |-> "Cube", mat |-> "PikemanSkin"], [name |-> "BootL", kind |-> "Cube", mat |-> "PikemanBoots"] >>],
          [name |-> "LegRU", bone |-> "R_UpperLeg", joined |-> FALSE,
          prims |-> << [name |-> "LegRU", kind |-> "Cube", mat |-> "PikemanTunicDk"] >>],
          [name |-> "Grp_R_LowerLeg", bone |-> "R_LowerLeg", joined |-> TRUE,
          prims |-> << [name |-> "LegRL", kind |-> "Cube", mat |-> "PikemanSkin"], [name |-> "BootR", kind |-> "Cube", mat |-> "PikemanBoots"] >>] >>,
   \* create_armature: add_bone calls in order; head/tail in 1/100 units
   create_armature |->
      [obj |-> "PikemanArmature", data |-> "PikemanRig",
       bones |-> <<
         [name |-> "Root", head |-> <<0, 0, 26>>, tail |-> <<0, 0, 30>>, parent |-> "", connect |-> FALSE],
         [name |-> "Spine", head |-> <<0, 0, 26>>, tail |-> <<0, 0, 52>>, parent |-> "Root", connect |-> TRUE],
         [name |-> "Head", head |-> <<0, 0, 52>>, tail |-> <<0, 0, 70>>, parent |-> "Spine", connect |-> TRUE],
         [name |-> "L_UpperArm", head |-> <<-12, 0, 50>>, tail |-> <<-16, 0, 46>>, parent |-> "Spine", connect |-> FALSE],
         [name |-> "L_ForeArm", head |-> <<-16, 0, 46>>, tail |-> <<-17, 0, 30>>, parent |-> "L_UpperArm", connect |-> TRUE],
         [name |-> "L_Hand", head |-> <<-17, 0, 30>>, tail |-> <<-17, 0, 25>>, parent |-> "L_ForeArm", connect |-> TRUE],
         [name |-> "R_UpperArm", head |-> <<12, 0, 50>>, tail |-> <<16, 0, 46>>, parent |-> "Spine", connect |-> FALSE],
         [name |-> "R_ForeArm", head |-> <<16, 0, 46>>, tail |-> <<17, 0, 30>>, parent |-> "R_UpperArm", connect |-> TRUE],
         [name |-> "R_Hand", head |-> <<17, 0, 30>>, tail |-> <<17, 0, 25>>, parent |-> "R_ForeArm", connect |-> TRUE],
         [name |-> "L_UpperLeg", head |-> <<-7, 0, 26>>, tail |-> <<-7, 0, 14>>, parent |-> "Root", connect |-> FALSE],
         [name |-> "L_LowerLeg", head |-> <<-7, 0, 14>>, tail |-> <<-7, 0, 3>>, parent |-> "L_UpperLeg", connect |-> TRUE],
         [name |-> "R_UpperLeg", head |-> <<7, 0, 26>>, tail |-> <<7, 0, 14>>, parent |-> "Root", connect |-> FALSE],
         [name |-> "R_LowerLeg", head |-> <<7, 0, 14>>, tail |-> <<7, 0, 3>>, parent |-> "R_UpperLeg", connect |-> TRUE] >>],
   \* create_walk_cycle: keyframes as (frame, set_bone_rot/set_bone_loc calls after reset_pose); degrees x10, offsets x1000
   create_walk_cycle |->
      [name |-> "Walk", creates_animation_data |-> TRUE, interpolation |-> "LINEAR",
       keyframes |-> <<
         [frame |-> 1, overrides |-> << [bone |-> "R_ForeArm", path |-> "rotation_euler", value |-> <<-900, 0, 0>>] >>],
         [frame |-> 7, overrides |-> << [bone |-> "R_ForeArm", path |-> "rotation_euler", value |-> <<-900, 0, 0>>], [bone |-> "L_UpperLeg", path |-> "rotation_euler", value |-> <<300, 0, 0>>], [bone |-> "L_LowerLeg", path |-> "rotation_euler", value |-> <<-90, 0, 0>>], [bone |-> "R_UpperLeg", path |-> "rotation_euler", value |-> <<-300, 0, 0>>], [bone |-> "L_UpperArm", path |-> "rotation_euler", value |-> <<250, 0, 0>>], [bone |-> "L_ForeArm", path |-> "rotation_euler", value |-> <<-100, 0, 0>>], [bone |-> "Root", path |-> "location", value |-> <<0, 0, 20>>], [bone |-> "Spine", path |-> "rotation_euler", value |-> <<0, 0, 30>>] >>],
         [frame |-> 13, overrides |-> << [bone |-> "R_ForeArm", path |-> "rotation_euler", value |-> <<-900, 0, 0>>] >>],
         [frame |-> 19, overrides |-> << [bone |-> "R_ForeArm", path |-> "rotation_euler", value |-> <<-900, 0, 0>>], [bone |-> "R_UpperLeg", path |-> "rotation_euler", value |-> <<300, 0, 0>>], [bone |-> "R_LowerLeg", path |-> "rotation_euler", value |-> <<-90, 0, 0>>], [bone |-> "L_UpperLeg", path |-> "rotation_euler", value |-> <<-300, 0, 0>>], [bone |-> "L_UpperArm", path |-> "rotation_euler", value |-> <<-250, 0, 0>>], [bone |-> "Root", path |-> "location", value |-> <<0, 0, 20>>], [bone |-> "Spine", path |-> "rotation_euler", value |-> <<0, 0, -30>>] >>],
         [frame |-> 25, overrides |-> << [bone |-> "R_ForeArm", path |-> "rotation_euler", value |-> <<-900, 0, 0>>] >>] >>],
   \* create_attack_anim: keyframes as (frame, set_bone_rot/set_bone_loc calls after reset_pose); degrees x10, offsets x1000
   create_attack_anim |->
      [name |-> "Attack", creates_animation_data |-> FALSE, interpolation |-> "BEZIER",
       keyframes |-> <<
         [frame |-> 1, overrides |-> << [bone |-> "R_ForeArm", path |-> "rotation_euler", value |-> <<-862, -69, -2>>], [bone |-> "R_Hand", path |-> "rotation_euler", value |-> <<-108, 0, 0>>] >>],
         [frame |-> 6, overrides |-> << [bone |-> "Spine", path |-> "rotation_euler", value |-> <<0, 895, 0>>], [bone |-> "Head", path |-> "rotation_euler", value |-> <<0, -871, 0>>], [bone |-> "L_UpperArm", path |-> "rotation_euler", value |-> <<-466, 530, 165>>], [bone |-> "L_ForeArm", path |-> "rotation_euler", value |-> <<-4, -19, -70>>], [bone |-> "R_UpperArm", path |-> "rotation_euler", value |-> <<58, -92, 58>>], [bone |-> "R_ForeArm", path |-> "rotation_euler", value |-> <<-758, -66, -13>>], [bone |-> "R_Hand", path |-> "rotation_euler", value |-> <<-702, 769, -627>>] >>],
         [frame |-> 11, overrides |-> << [bone |-> "Spine", path |-> "rotation_euler", value |-> <<0, 939, 0>>], [bone |-> "Head", path |-> "rotation_euler", value |-> <<0, -946, 0>>], [bone |-> "L_UpperArm", path |-> "rotation_euler", value |-> <<342, 576, 530>>], [bone |-> "R_UpperArm", path |-> "rotation_euler", value |-> <<-544, -447, -113>>], [bone |-> "R_ForeArm", path |-> "rotation_euler", value |-> <<31, 117, 355>>], [bone |-> "R_Hand", path |-> "rotation_euler", value |-> <<581, 594, 34>>] >>],
         [frame |-> 16, overrides |-> << [bone |-> "Spine", path |-> "rotation_euler", value |-> <<0, 895, 0>>], [bone |-> "Head", path |-> "rotation_euler", value |-> <<0, -871, 0>>], [bone |-> "L_UpperArm", path |-> "rotation_euler", value |-> <<-466, 530, 165>>], [bone |-> "L_ForeArm", path |-> "rotation_euler", value |-> <<-4, -19, -70>>], [bone |-> "R_UpperArm", path |-> "rotation_euler", value |-> <<58, -92, 58>>], [bone |-> "R_ForeArm", path |-> "rotation_euler", value |-> <<-758, -66, -13>>], [bone |-> "R_Hand", path |-> "rotation_euler", value |-> <<-702, 769, -627>>] >>],
         [frame |-> 20, overrides |-> << [bone |-> "R_ForeArm", path |-> "rotation_euler", value |-> <<-862, -69, -2>>], [bone |-> "R_Hand", path |-> "rotation_euler", value |-> <<-108, 0, 0>>] >>] >>],
   \* create_die_anim: keyframes as (frame, set_bone_rot/set_bone_loc calls after reset_pose); degrees x10, offsets x1000
   create_die_anim |->
      [name |-> "Die", creates_animation_data |-> FALSE, interpolation |-> "BEZIER",
       keyframes |-> <<
         [frame |-> 1, overrides |-> <<  >>],
         [frame |-> 6, overrides |-> << [bone |-> "Spine", path |-> "rotation_euler", value |-> <<150, 0, 0>>], [bone |-> "Head", path |-> "rotation_euler", value |-> <<100, 0, 50>>], [bone |-> "R_UpperArm", path |-> "rotation_euler", value |-> <<100, 0, 200>>], [bone |-> "L_UpperArm", path |-> "rotation_euler", value |-> <<100, 0, -200>>], [bone |-> "Root", path |-> "location", value |-> <<0, -20, 0>>] >>],
         [frame |-> 12, overrides |-> << [bone |-> "Spine", path |-> "rotation_euler", value |-> <<-200, 0, 30>>], [bone |-> "Head", path |-> "rotation_euler", value |-> <<-150, 0, -50>>], [bone |-> "R_UpperArm", path |-> "rotation_euler", value |-> <<-200, 0, 300>>], [bone |-> "R_ForeArm", path |-> "rotation_euler", value |-> <<-200, 0, 0>>], [bone |-> "L_UpperArm", path |-> "rotation_euler", value |-> <<-200, 0, -300>>], [bone |-> "L_ForeArm", path |-> "rotation_euler", value |-> <<-200, 0, 0>>], [bone |-> "L_UpperLeg", path |-> "rotation_euler", value |-> <<-200, 0, 0>>], [bone |-> "R_UpperLeg", path |-> "rotation_euler", value |-> <<-200, 0, 0>>], [bone |-> "Root", path |-> "location", value |-> <<0, -50, 50>>] >>],
         [frame |-> 20, overrides |-> << [bone |-> "Spine", path |-> "rotation_euler", value |-> <<-500, 0, 50>>], [bone |-> "Head", path |-> "rotation_euler", value |-> <<-300, 0, -100>>], [bone |-> "R_UpperArm", path |-> "rotation_euler", value |-> <<-400, 0, 450>>], [bone |-> "R_ForeArm", path |-> "rotation_euler", value |-> <<-300, 0, 0>>], [bone |-> "L_UpperArm", path |-> "rotation_euler", value |-> <<-400, 0, -450>>], [bone |-> "L_ForeArm", path |-> "rotation_euler", value |-> <<-300, 0, 0>>], [bone |-> "L_UpperLeg", path |-> "rotation_euler", value |-> <<-500, 0, 0>>], [bone |-> "R_UpperLeg", path |-> "rotation_euler", value |-> <<-500, 0, 0>>], [bone |-> "Root", path |-> "location", value |-> <<0, -200, 150>>] >>],
         [frame |-> 30, overrides |-> << [bone |-> "Spine", path |-> "rotation_euler", value |-> <<-800, 0, 50>>], [bone |-> "Head", path |-> "rotation_euler", value |-> <<-400, 0, -150>>], [bone |-> "L_UpperArm", path |-> "rotation_euler", value |-> <<1615, -218, -929>>], [bone |-> "L_ForeArm", path |-> "rotation_euler", value |-> <<-100, 0, -200>>], [bone |-> "R_UpperArm", path |-> "rotation_euler", value |-> <<691, -418, -460>>], [bone |-> "R_ForeArm", path |-> "rotation_euler", value |-> <<-100, 0, 200>>], [bone |-> "L_UpperLeg", path |-> "rotation_euler", value |-> <<-677, 303, 233>>], [bone |-> "L_LowerLeg", path |-> "rotation_euler", value |-> <<100, 0, 0>>], [bone |-> "R_UpperLeg", path |-> "rotation_euler", value |-> <<-740, -160, -208>>], [bone |-> "R_LowerLeg", path |-> "rotation_euler", value |-> <<100, 0, 0>>], [bone |-> "Root", path |-> "location", value |-> <<0, -350, 300>>] >>] >>],
   \* main: active-clip handling around track packaging (frame 0 = no frame_set), pose-mode re-entry, camera name
   main |->
      [clear_active |-> FALSE, preview |-> "Die", preview_frame |-> 30, repose |-> TRUE, final |-> "Attack", final_frame |-> 1, camera |-> "PikemanCamera"]
  ]

\* generate_suicide_goblin.py: what each of its functions does, by function
generate_suicide_goblin ==
  [
   \* create_materials: material names in creation order
   create_materials |->
      << "GoblinSkin", "GoblinSkinDark", "GoblinMouth", "GoblinEyes", "GoblinCloth", "GoblinWood", "GoblinTeeth", "GoblinFuse", "GoblinMetal", "GoblinBomb" >>,
   \* build_body_parts: body parts in assembly order, each with the bone key it is grouped under and its primitives
   build_parts |->
      <<
          [name |-> "Grp_Spine", bone |-> "Spine", joined |-> TRUE,
          prims |-> << [name |-> "Torso", kind |-> "Cube", mat |-> "GoblinSkin"], [name |-> "WaistCloth", kind |-> "Cube", mat |-> "GoblinCloth"], [name |-> "Loincloth", kind |-> "Cube", mat |-> "GoblinCloth"], [name |-> "BombBarrel", kind |-> "Cylinder", mat |-> "GoblinBomb"], [name |-> "BarrelBand1", kind |-> "Cylinder", mat |-> "GoblinMetal"], [name |-> "BarrelBand2", kind |-> "Cylinder", mat |-> "GoblinMetal"], [name |-> "RopeL", kind |-> "Cube", mat |-> "GoblinCloth"], [name |-> "RopeR", kind |-> "Cube", mat |-> "GoblinCloth"], [name |-> "Fuse", kind |-> "Cylinder", mat |-> "GoblinFuse"], [name |-> "FuseSpark", kind |-> "Sphere", mat |-> "GoblinFuse"] >>],
          [name |-> "Grp_Head", bone |-> "Head", joined |-> TRUE,
          prims |-> << [name |-> "Head", kind |-> "Cube", mat |-> "GoblinSkin"], [name |-> "Brow", kind |-> "Cube", mat |-> "GoblinSkinDark"], [name |-> "EyeL", kind |-> "Cube", mat |-> "GoblinEyes"], [name |-> "EyeR", kind |-> "Cube", mat |-> "GoblinEyes"], [name |-> "Nose", kind |-> "Cone", mat |-> "GoblinSkinDark"], [name |-> "Mouth", kind |-> "Cube", mat |-> "GoblinMouth"], [name |-> "ToothL1", kind |-> "Cone", mat |-> "GoblinTeeth"], [name |-> "ToothR1", kind |-> "Cone", mat |-> "GoblinTeeth"], [name |-> "ToothC", kind |-> "Cone", mat |-> "GoblinTeeth"], [name |-> "EarL", kind |-> "Cone", mat |-> "GoblinSkinDark"], [name |-> "EarR", kind |-> "Cone", mat |-> "GoblinSkinDark"] >>],
          [name |-> "ArmLUpper", bone |-> "L_UpperArm", joined |-> FALSE,
          prims |-> << [name |-> "ArmLUpper", kind |-> "Cube", mat |-> "GoblinSkin"] >>],
          [name |-> "Grp_L_ForeArm", bone |-> "L_ForeArm", joined |-> TRUE,
          prims |-> << [name |-> "ArmLLower", kind |-> "Cube", mat |-> "GoblinSkin"], [name |-> "HandL", kind |-> "Cube", mat |-> "GoblinSkinDark"] >>],
          [name |-> "ArmRUpper", bone |-> "R_UpperArm", joined |-> FALSE,
          prims |-> << [name |-> "ArmRUpper", kind |-> "Cube", mat |-> "GoblinSkin"] >>],
          [name |-> "Grp_R_ForeArm", bone |-> "R_ForeArm", joined |-> TRUE,
          prims |-> << [name |-> "ArmRLower", kind |-> "Cube", mat |-> "GoblinSkin"], [name |-> "HandR", kind |-> "Cube", mat |-> "GoblinSkinDark"] >>],
          [name |-> "LegLUpper", bone |-> "L_UpperLeg", joined |-> FALSE,
          prims |-> << [name |-> "LegLUpper", kind |-> "Cube", mat |-> "GoblinSkin"] >>],
          [name |-> "Grp_L_LowerLeg", bone |-> "L_LowerLeg", joined |-> TRUE,
          prims |-> << [name |-> "LegLLower", kind |-> "Cube", mat |-> "GoblinCloth"], [name |-> "FootL", kind |-> "Cube", mat |-> "GoblinCloth"] >>],
          [name |-> "LegRUpper", bone |-> "R_UpperLeg", joined |-> FALSE,
          prims |-> << [name |-> "LegRUpper", kind |-> "Cube", mat |-> "GoblinSkin"] >>],
          [name |-> "Grp_R_LowerLeg", bone |-> "R_LowerLeg", joined |-> TRUE,
          prims |-> << [name |-> "LegRLower", kind |-> "Cube", mat |-> "GoblinCloth"], [name |-> "FootR", kind |-> "Cube", mat |-> "GoblinCloth"] >>] >>,
   \* create_armature: add_bone calls in order; head/tail in 1/100 units
   create_armature |->
      [obj |-> "GoblinArmature", data |-> "GoblinRig",
       bones |-> <<
         [name |-> "Root", head |-> <<0, 0, 27>>, tail |-> <<0, 0, 31>>, parent |-> "", connect |-> FALSE],
         [name |-> "Spine", head |-> <<0, 0, 27>>, tail |-> <<0, 0, 53>>, parent |-> "Root", connect |-> TRUE],
         [name |-> "Head", head |-> <<0, 0, 53>>, tail |-> <<0, 0, 79>>, parent |-> "Spine", connect |-> TRUE],
         [name |-> "L_UpperArm", head |-> <<-13, 0, 51>>, tail |-> <<-20, 0, 49>>, parent |-> "Spine", connect |-> FALSE],
         [name |-> "L_ForeArm", head |-> <<-20, 0, 49>>, tail |-> <<-22, 0, 29>>, parent |-> "L_UpperArm", connect |-> TRUE],
         [name |-> "R_UpperArm", head |-> <<13, 0, 51>>, tail |-> <<20, 0, 49>>, parent |-> "Spine", connect |-> FALSE],
         [name |-> "R_ForeArm", head |-> <<20, 0, 49>>, tail |-> <<22, 0, 29>>, parent |-> "R_UpperArm", connect |-> TRUE],
         [name |-> "L_UpperLeg", head |-> <<-8, 0, 27>>, tail |-> <<-8, 0, 13>>, parent |-> "Root", connect |-> FALSE],
         [name |-> "L_LowerLeg", head |-> <<-8, 0, 13>>, tail |-> <<-8, 0, 3>>, parent |-> "L_UpperLeg", connect |-> TRUE],
         [name |-> "R_UpperLeg", head |-> <<8, 0, 27>>, tail |-> <<8, 0, 13>>, parent |-> "Root", connect |-> FALSE],
         [name |-> "R_LowerLeg", head |-> <<8, 0, 13>>, tail |-> <<8, 0, 3>>, parent |-> "R_UpperLeg", connect |-> TRUE] >>],
   \* create_walk_cycle: keyframes as (frame, set_bone_rot/set_bone_loc calls after reset_pose); degrees x10, offsets x1000
   create_walk_cycle |->
      [name |-> "Walk", creates_animation_data |-> TRUE, interpolation |-> "LINEAR",
       keyframes |-> <<
         [frame |-> 1, overrides |-> << [bone |-> "Spine", path |-> "rotation_euler", value |-> <<120, 0, 0>>], [bone |-> "Head", path |-> "rotation_euler", value |-> <<-80, 0, 0>>] >>],
         [frame |-> 7, overrides |-> << [bone |-> "Spine", path |-> "rotation_euler", value |-> <<120, 0, 50>>], [bone |-> "Head", path |-> "rotation_euler", value |-> <<-80, 0, 0>>], [bone |-> "L_UpperLeg", path |-> "rotation_euler", value |-> <<400, 0, 0>>], [bone |-> "L_LowerLeg", path |-> "rotation_euler", value |-> <<-160, 0, 0>>], [bone |-> "R_UpperLeg", path |-> "rotation_euler", value |-> <<-400, 0, 0>>], [bone |-> "R_LowerLeg", path |-> "rotation_euler", value |-> <<0, 0, 0>>], [bone |-> "R_UpperArm", path |-> "rotation_euler", value |-> <<350, 0, 0>>], [bone |-> "R_ForeArm", path |-> "rotation_euler", value |-> <<-175, 0, 0>>], [bone |-> "L_UpperArm", path |-> "rotation_euler", value |-> <<-350, 0, 0>>], [bone |-> "L_ForeArm", path |-> "rotation_euler", value |-> <<0, 0, 0>>], [bone |-> "Root", path |-> "location", value |-> <<0, 0, 30>>] >>],
         [frame |-> 13, overrides |-> << [bone |-> "Spine", path |-> "rotation_euler", value |-> <<120, 0, 0>>], [bone |-> "Head", path |-> "rotation_euler", value |-> <<-80, 0, 0>>] >>],
         [frame |-> 19, overrides |-> << [bone |-> "Spine", path |-> "rotation_euler", value |-> <<120, 0, -50>>], [bone |-> "Head", path |-> "rotation_euler", value |-> <<-80, 0, 0>>], [bone |-> "R_UpperLeg", path |-> "rotation_euler", value |-> <<400, 0, 0>>], [bone |-> "R_LowerLeg", path |-> "rotation_euler", value |-> <<-160, 0, 0>>], [bone |-> "L_UpperLeg", path |-> "rotation_euler", value |-> <<-400, 0, 0>>], [bone |-> "L_LowerLeg", path |-> "rotation_euler", value |-> <<0, 0, 0>>], [bone |-> "L_UpperArm", path |-> "rotation_euler", value |-> <<350, 0, 0>>], [bone |-> "L_ForeArm", path |-> "rotation_euler", value |-> <<-175, 0, 0>>], [bone |-> "R_UpperArm", path |-> "rotation_euler", value |-> <<-350, 0, 0>>], [bone |-> "R_ForeArm", path |-> "rotation_euler", value |-> <<0, 0, 0>>], [bone |-> "Root", path |-> "location", value |-> <<0, 0, 30>>] >>],
         [frame |-> 25, overrides |-> << [bone |-> "Spine", path |-> "rotation_euler", value |-> <<120, 0, 0>>], [bone |-> "Head", path |-> "rotation_euler", value |-> <<-80, 0, 0>>] >>] >>],
   \* create_attack_anim: keyframes as (frame, set_bone_rot/set_bone_loc calls after reset_pose); degrees x10, offsets x1000
   create_attack_anim |->
      [name |-> "Attack", creates_animation_data |-> FALSE, interpolation |-> "BEZIER",
       keyframes |-> <<
         [frame |-> 1, overrides |-> << [bone |-> "Spine", path |-> "rotation_euler", value |-> <<120, 0, 0>>], [bone |-> "Head", path |-> "rotation_euler", value |-> <<-80, 0, 0>>] >>],
         [frame |-> 4, overrides |-> << [bone |-> "Spine", path |-> "rotation_euler", value |-> <<250, 0, 0>>], [bone |-> "Head", path |-> "rotation_euler", value |-> <<-150, 0, 0>>], [bone |-> "R_UpperArm", path |-> "rotation_euler", value |-> <<200, 0, -300>>], [bone |-> "R_ForeArm", path |-> "rotation_euler", value |-> <<-400, 0, 0>>], [bone |-> "L_UpperArm", path |-> "rotation_euler", value |-> <<200, 0, 300>>], [bone |-> "L_ForeArm", path |-> "rotation_euler", value |-> <<-400, 0, 0>>], [bone |-> "Root", path |-> "location", value |-> <<0, 0, -30>>] >>],
         [frame |-> 7, overrides |-> << [bone |-> "Spine", path |-> "rotation_euler", value |-> <<300, 0, 0>>], [bone |-> "Head", path |-> "rotation_euler", value |-> <<-200, 0, 0>>], [bone |-> "R_UpperArm", path |-> "rotation_euler", value |-> <<300, 0, -400>>], [bone |-> "R_ForeArm", path |-> "rotation_euler", value |-> <<-500, 0, 0>>], [bone |-> "L_UpperArm", path |-> "rotation_euler", value |-> <<300, 0, 400>>], [bone |-> "L_ForeArm", path |-> "rotation_euler", value |-> <<-500, 0, 0>>], [bone |-> "Root", path |-> "location", value |-> <<0, 0, -50>>] >>],
         [frame |-> 10, overrides |-> << [bone |-> "Spine", path |-> "rotation_euler", value |-> <<-150, 0, 0>>], [bone |-> "Head", path |-> "rotation_euler", value |-> <<200, 0, 0>>], [bone |-> "R_UpperArm", path |-> "rotation_euler", value |-> <<0, 0, -800>>], [bone |-> "R_ForeArm", path |-> "rotation_euler", value |-> <<-200, 0, 0>>], [bone |-> "L_UpperArm", path |-> "rotation_euler", value |-> <<0, 0, 800>>], [bone |-> "L_ForeArm", path |-> "rotation_euler", value |-> <<-200, 0, 0>>], [bone |-> "Root", path |-> "location", value |-> <<0, 0, 40>>] >>],
         [frame |-> 14, overrides |-> << [bone |-> "Spine", path |-> "rotation_euler", value |-> <<-100, 0, 0>>], [bone |-> "Head", path |-> "rotation_euler", value |-> <<150, 0, 0>>], [bone |-> "R_UpperArm", path |-> "rotation_euler", value |-> <<0, 0, -900>>], [bone |-> "R_ForeArm", path |-> "rotation_euler", value |-> <<0, 0, 0>>], [bone |-> "L_UpperArm", path |-> "rotation_euler", value |-> <<0, 0, 900>>], [bone |-> "L_ForeArm", path |-> "rotation_euler", value |-> <<0, 0, 0>>], [bone |-> "L_UpperLeg", path |-> "rotation_euler", value |-> <<-200, 0, -150>>], [bone |-> "R_UpperLeg", path |-> "rotation_euler", value |-> <<-200, 0, 150>>], [bone |-> "Root", path |-> "location", value |-> <<0, 0, 20>>] >>],
         [frame |-> 20, overrides |-> << [bone |-> "Spine", path |-> "rotation_euler", value |-> <<400, 0, 0>>], [bone |-> "Head", path |-> "rotation_euler", value |-> <<-300, 0, 100>>], [bone |-> "R_UpperArm", path |-> "rotation_euler", value |-> <<150, 0, 200>>], [bone |-> "R_ForeArm", path |-> "rotation_euler", value |-> <<-300, 0, 0>>], [bone |-> "L_UpperArm", path |-> "rotation_euler", value |-> <<150, 0, -200>>], [bone |-> "L_ForeArm", path |-> "rotation_euler", value |-> <<-300, 0, 0>>], [bone |-> "Root", path |-> "location", value |-> <<0, -100, -50>>] >>] >>],
   \* create_die_anim: keyframes as (frame, set_bone_rot/set_bone_loc calls after reset_pose); degrees x10, offsets x1000
   create_die_anim |->
      [name |-> "Die", creates_animation_data |-> FALSE, interpolation |-> "BEZIER",
       keyframes |-> <<
         [frame |-> 1, overrides |-> << [bone |-> "Spine", path |-> "rotation_euler", value |-> <<120, 0, 0>>], [bone |-> "Head", path |-> "rotation_euler", value |-> <<-80, 0, 0>>] >>],
         [frame |-> 6, overrides |-> << [bone |-> "Spine", path |-> "rotation_euler", value |-> <<250, 0, 0>>], [bone |-> "Head", path |-> "rotation_euler", value |-> <<150, 0, 50>>], [bone |-> "R_UpperArm", path |-> "rotation_euler", value |-> <<100, 0, 200>>], [bone |-> "L_UpperArm", path |-> "rotation_euler", value |-> <<100, 0, -200>>], [bone |-> "Root", path |-> "location", value |-> <<0, -20, 0>>] >>],
         [frame |-> 12, overrides |-> << [bone |-> "Spine", path |-> "rotation_euler", value |-> <<400, 0, 30>>], [bone |-> "Head", path |-> "rotation_euler", value |-> <<-100, 0, -50>>], [bone |-> "R_UpperArm", path |-> "rotation_euler", value |-> <<-100, 0, 300>>], [bone |-> "R_ForeArm", path |-> "rotation_euler", value |-> <<-200, 0, 0>>], [bone |-> "L_UpperArm", path |-> "rotation_euler", value |-> <<-100, 0, -300>>], [bone |-> "L_ForeArm", path |-> "rotation_euler", value |-> <<-200, 0, 0>>], [bone |-> "L_UpperLeg", path |-> "rotation_euler", value |-> <<300, 0, 0>>], [bone |-> "L_LowerLeg", path |-> "rotation_euler", value |-> <<-400, 0, 0>>], [bone |-> "R_UpperLeg", path |-> "rotation_euler", value |-> <<300, 0, 0>>], [bone |-> "R_LowerLeg", path |-> "rotation_euler", value |-> <<-400, 0, 0>>], [bone |-> "Root", path |-> "location", value |-> <<0, -100, -50>>] >>],
         [frame |-> 20, overrides |-> << [bone |-> "Spine", path |-> "rotation_euler", value |-> <<600, 0, 50>>], [bone |-> "Head", path |-> "rotation_euler", value |-> <<-200, 0, -100>>], [bone |-> "R_UpperArm", path |-> "rotation_euler", value |-> <<-300, 0, 450>>], [bone |-> "R_ForeArm", path |-> "rotation_euler", value |-> <<-300, 0, 0>>], [bone |-> "L_UpperArm", path |-> "rotation_euler", value |-> <<-300, 0, -450>>], [bone |-> "L_ForeArm", path |-> "rotation_euler", value |-> <<-300, 0, 0>>], [bone |-> "L_UpperLeg", path |-> "rotation_euler", value |-> <<500, 0, 0>>], [bone |-> "L_LowerLeg", path |-> "rotation_euler", value |-> <<-600, 0, 0>>], [bone |-> "R_UpperLeg", path |-> "rotation_euler", value |-> <<500, 0, 0>>], [bone |-> "R_LowerLeg", path |-> "rotation_euler", value |-> <<-600, 0, 0>>], [bone |-> "Root", path |-> "location", value |-> <<0, -200, -100>>] >>],
         [frame |-> 30, overrides |-> << [bone |-> "Spine", path |-> "rotation_euler", value |-> <<800, 0, 50>>], [bone |-> "Head", path |-> "rotation_euler", value |-> <<28, 69, -100>>], [bone |-> "R_UpperArm", path |-> "rotation_euler", value |-> <<258, -379, -508>>], [bone |-> "R_ForeArm", path |-> "rotation_euler", value |-> <<236, -45, -553>>], [bone |-> "L_UpperArm", path |-> "rotation_euler", value |-> <<405, 252, 346>>], [bone |-> "L_ForeArm", path |-> "rotation_euler", value |-> <<372, 73, 548>>], [bone |-> "L_UpperLeg", path |-> "rotation_euler", value |-> <<895, -290, -98>>], [bone |-> "L_LowerLeg", path |-> "rotation_euler", value |-> <<-89, 700, 912>>], [bone |-> "R_UpperLeg", path |-> "rotation_euler", value |-> <<980, 377, 180>>], [bone |-> "R_LowerLeg", path |-> "rotation_euler", value |-> <<-443, -655, -531>>], [bone |-> "Root", path |-> "location", value |-> <<0, -300, -150>>] >>] >>],
   \* main: active-clip handling around track packaging (frame 0 = no frame_set), pose-mode re-entry, camera name
   main |->
      [clear_active |-> FALSE, preview |-> "Die", preview_frame |-> 30, repose |-> TRUE, final |-> "", final_frame |-> 30, camera |-> "GoblinCamera"]
  ]

\* generate_torch.py: what each of its functions does, by function
generate_torch ==
  [
   \* create_materials: material names in creation order
   create_materials |->
      << "TorchIron", "TorchWood", "TorchCloth", "FlameOuter", "FlameMid", "FlameCore" >>,
   \* build_torch: body parts in assembly order, each with the bone key it is grouped under and its primitives
   build_parts |->
      <<
          [name |-> "Torch", bone |-> "", joined |-> TRUE,
          prims |-> << [name |-> "BracketPlate", kind |-> "Cube", mat |-> "TorchIron"], [name |-> "BracketArm", kind |-> "Cube", mat |-> "TorchIron"], [name |-> "BracketRing", kind |-> "Cylinder", mat |-> "TorchIron"], [name |-> "Handle", kind |-> "Cylinder", mat |-> "TorchWood"], [name |-> "Cloth1", kind |-> "Cylinder", mat |-> "TorchCloth"], [name |-> "Cloth2", kind |-> "Cylinder", mat |-> "TorchCloth"], [name |-> "Cloth3", kind |-> "Cylinder", mat |-> "TorchCloth"], [name |-> "FlameOuter", kind |-> "Cone", mat |-> "FlameOuter"], [name |-> "FlameOuterL", kind |-> "Cone", mat |-> "FlameOuter"], [name |-> "FlameOuterR", kind |-> "Cone", mat |-> "FlameOuter"], [name |-> "FlameOuterB", kind |-> "Cone", mat |-> "FlameOuter"], [name |-> "FlameMid", kind |-> "Cone", mat |-> "FlameMid"], [name |-> "FlameMidL", kind |-> "Cone", mat |-> "FlameMid"], [name |-> "FlameMidR", kind |-> "Cone", mat |-> "FlameMid"], [name |-> "FlameCore", kind |-> "Cone", mat |-> "FlameCore"], [name |-> "FlameGlow", kind |-> "Sphere", mat |-> "FlameMid"] >>] >>,
   \* main: active-clip handling around track packaging (frame 0 = no frame_set), pose-mode re-entry, camera name
   main |->
      [clear_active |-> FALSE, preview |-> "", preview_frame |-> 0, repose |-> FALSE, final |-> "", final_frame |-> 0, camera |-> "TorchCamera"]
  ]

\* generate_tower.py: what each of its functions does, by function
generate_tower ==
  [
   \* create_materials: material names in creation order
   create_materials |->
      << "TowerStone", "TowerStoneDk", "TowerStoneLt", "TowerIron", "TowerWood" >>,
   \* build_tower: body parts in assembly order, each with the bone key it is grouped under and its primitives
   build_parts |->
      <<
          [name |-> "Tower", bone |-> "", joined |-> TRUE,
          prims |-> << [name |-> "Foundation", kind |-> "Cube", mat |-> "TowerStoneDk"], [name |-> "Body", kind |-> "Cube", mat |-> "TowerStone"], [name |-> "Buttress_-1_-1", kind |-> "Cube", mat |-> "TowerStoneDk"], [name |-> "Buttress_-1_1", kind |-> "Cube", mat |-> "TowerStoneDk"], [name |-> "Buttress_1_-1", kind |-> "Cube", mat |-> "TowerStoneDk"], [name |-> "Buttress_1_1", kind |-> "Cube", mat |-> "TowerStoneDk"], [name |-> "MortarX_0_-1", kind |-> "Cube", mat |-> "TowerStoneDk"], [name |-> "MortarX_0_1", kind |-> "Cube", mat |-> "TowerStoneDk"], [name |-> "MortarY_0_-1", kind |-> "Cube", mat |-> "TowerStoneDk"], [name |-> "MortarY_0_1", kind |-> "Cube", mat |-> "TowerStoneDk"], [name |-> "MortarX_1_-1", kind |-> "Cube", mat |-> "TowerStoneDk"], [name |-> "MortarX_1_1", kind |-> "Cube", mat |-> "TowerStoneDk"], [name |-> "MortarY_1_-1", kind |-> "Cube", mat |-> "TowerStoneDk"], [name |-> "MortarY_1_1", kind |-> "Cube", mat |-> "TowerStoneDk"], [name |-> "MortarX_2_-1", kind |-> "Cube", mat |-> "TowerStoneDk"], [name |-> "MortarX_2_1", kind |-> "Cube", mat |-> "TowerStoneDk"], [name |-> "MortarY_2_-1", kind |-> "Cube", mat |-> "TowerStoneDk"], [name |-> "MortarY_2_1", kind |-> "Cube", mat |-> "TowerStoneDk"], [name |-> "SlitX_-1", kind |-> "Cube", mat |-> "TowerStoneDk"], [name |-> "SlitX_1", kind |-> "Cube", mat |-> "TowerStoneDk"], [name |-> "SlitY_-1", kind |-> "Cube", mat |-> "TowerStoneDk"], [name |-> "SlitY_1", kind |-> "Cube", mat |-> "TowerStoneDk"], [name |-> "Slit2X_-1_-0", kind |-> "Cube", mat |-> "TowerStoneDk"], [name |-> "Slit2X_-1_0", kind |-> "Cube", mat |-> "TowerStoneDk"], [name |-> "Slit2X_1_-0", kind |-> "Cube", mat |-> "TowerStoneDk"], [name |-> "Slit2X_1_0", kind |-> "Cube", mat |-> "TowerStoneDk"], [name |-> "Slit2Y_-1_-0", kind |-> "Cube", mat |-> "TowerStoneDk"], [name |-> "Slit2Y_-1_0", kind |-> "Cube", mat |-> "TowerStoneDk"], [name |-> "Slit2Y_1_-0", kind |-> "Cube", mat |-> "TowerStoneDk"], [name |-> "Slit2Y_1_0", kind |-> "Cube", mat |-> "TowerStoneDk"], [name |-> "IronX_-1", kind |-> "Cube", mat |-> "TowerIron"], [name |-> "IronX_1", kind |-> "Cube", mat |-> "TowerIron"], [name |-> "IronY_-1", kind |-> "Cube", mat |-> "TowerIron"], [name |-> "IronY_1", kind |-> "Cube", mat |-> "TowerIron"], [name |-> "IronStud_-1_-1", kind |-> "Cube", mat |-> "TowerIron"], [name |-> "IronStud_-1_1", kind |-> "Cube", mat |-> "TowerIron"], [name |-> "IronStud_1_-1", kind |-> "Cube", mat |-> "TowerIron"], [name |-> "IronStud_1_1", kind |-> "Cube", mat |-> "TowerIron"], [name |-> "Iron2X_-1", kind |-> "Cube", mat |-> "TowerIron"], [name |-> "Iron2X_1", kind |-> "Cube", mat |-> "TowerIron"], [name |-> "Iron2Y_-1", kind |-> "Cube", mat |-> "TowerIron"], [name |-> "Iron2Y_1", kind |-> "Cube", mat |-> "TowerIron"], [name |-> "Corbel", kind |-> "Cube", mat |-> "TowerStoneLt"], [name |-> "ParapetS", kind |-> "Cube", mat |-> "TowerStone"], [name |-> "ParapetN", kind |-> "Cube", mat |-> "TowerStone"], [name |-> "ParapetW", kind |-> "Cube", mat |-> "TowerStone"], [name |-> "ParapetE", kind |-> "Cube", mat |-> "TowerStone"], [name |-> "MS_-0.55", kind |-> "Cube", mat |-> "TowerStone"], [name |-> "MCS_-0.55", kind |-> "Cube", mat |-> "TowerStoneLt"], [name |-> "MS_0.00", kind |-> "Cube", mat |-> "TowerStone"], [name |-> "MCS_0.00", kind |-> "Cube", mat |-> "TowerStoneLt"], [name |-> "MS_0.55", kind |-> "Cube", mat |-> "TowerStone"], [name |-> "MCS_0.55", kind |-> "Cube", mat |-> "TowerStoneLt"], [name |-> "MN_-0.55", kind |-> "Cube", mat |-> "TowerStone"], [name |-> "MCN_-0.55", kind |-> "Cube", mat |-> "TowerStoneLt"], [name |-> "MN_0.00", kind |-> "Cube", mat |-> "TowerStone"], [name |-> "MCN_0.00", kind |-> "Cube", mat |-> "TowerStoneLt"], [name |-> "MN_0.55", kind |-> "Cube", mat |-> "TowerStone"], [name |-> "MCN_0.55", kind |-> "Cube", mat |-> "TowerStoneLt"], [name |-> "MW_-0.55", kind |-> "Cube", mat |-> "TowerStone"], [name |-> "MCW_-0.55", kind |-> "Cube", mat |-> "TowerStoneLt"], [name |-> "MW_0.00", kind |-> "Cube", mat |-> "TowerStone"], [name |-> "MCW_0.00", kind |-> "Cube", mat |-> "TowerStoneLt"], [name |-> "MW_0.55", kind |-> "Cube", mat |-> "TowerStone"], [name |-> "MCW_0.55", kind |-> "Cube", mat |-> "TowerStoneLt"], [name |-> "ME_-0.55", kind |-> "Cube", mat |-> "TowerStone"], [name |-> "MCE_-0.55", kind |-> "Cube", mat |-> "TowerStoneLt"], [name |-> "ME_0.00", kind |-> "Cube", mat |-> "TowerStone"], [name |-> "MCE_0.00", kind |-> "Cube", mat |-> "TowerStoneLt"], [name |-> "ME_0.55", kind |-> "Cube", mat |-> "TowerStone"], [name |-> "MCE_0.55", kind |-> "Cube", mat |-> "TowerStoneLt"], [name |-> "Turret_-1_-1", kind |-> "Cube", mat |-> "TowerStoneDk"], [name |-> "TurretCap_-1_-1", kind |-> "Cube", mat |-> "TowerStoneLt"], [name |-> "Turret_-1_1", kind |-> "Cube", mat |-> "TowerStoneDk"], [name |-> "TurretCap_-1_1", kind |-> "Cube", mat |-> "TowerStoneLt"], [name |-> "Turret_1_-1", kind |-> "Cube", mat |-> "TowerStoneDk"], [name |-> "TurretCap_1_-1", kind |-> "Cube", mat |-> "TowerStoneLt"], [name |-> "Turret_1_1", kind |-> "Cube", mat |-> "TowerStoneDk"], [name |-> "TurretCap_1_1", kind |-> "Cube", mat |-> "TowerStoneLt"], [name |-> "DoorRecess", kind |-> "Cube", mat |-> "TowerStoneDk"], [name |-> "Door", kind |-> "Cube", mat |-> "TowerWood"], [name |-> "Lintel", kind |-> "Cube", mat |-> "TowerStoneLt"], [name |-> "DoorBand_0.18", kind |-> "Cube", mat |-> "TowerIron"], [name |-> "DoorBand_0.40", kind |-> "Cube", mat |-> "TowerIron"], [name |-> "DoorRing", kind |-> "Cube", mat |-> "TowerIron"] >>] >>,
   \* main: active-clip handling around track packaging (frame 0 = no frame_set), pose-mode re-entry, camera name
   main |->
      [clear_active |-> FALSE, preview |-> "", preview_frame |-> 0, repose |-> FALSE, final |-> "", final_frame |-> 0, camera |-> "TowerCamera"]
  ]

\* generate_treasure.py: what each of its functions does, by function
generate_treasure ==
  [
   \* create_materials: material names in creation order
   create_materials |->
      << "TreasureWood", "TreasureWoodDk", "TreasureGold", "TreasureMetal", "TreasureLining" >>,
   \* build_treasure: body parts in assembly order, each with the bone key it is grouped under and its primitives
   build_parts |->
      <<
          [name |-> "TreasureChest", bone |-> "", joined |-> TRUE,
          prims |-> << [name |-> "ChestBottom", kind |-> "Cube", mat |-> "TreasureWood"], [name |-> "ChestFront", kind |-> "Cube", mat |-> "TreasureWood"], [name |-> "ChestBack", kind |-> "Cube", mat |-> "TreasureWood"], [name |-> "ChestLeft", kind |-> "Cube", mat |-> "TreasureWood"], [name |-> "ChestRight", kind |-> "Cube", mat |-> "TreasureWood"], [name |-> "Lining", kind |-> "Cube", mat |-> "TreasureLining"], [name |-> "BandFront", kind |-> "Cube", mat |-> "TreasureMetal"], [name |-> "BandBack", kind |-> "Cube", mat |-> "TreasureMetal"], [name |-> "BandLeft", kind |-> "Cube", mat |-> "TreasureMetal"], [name |-> "BandRight", kind |-> "Cube", mat |-> "TreasureMetal"], [name |-> "CornerFL", kind |-> "Cube", mat |-> "TreasureMetal"], [name |-> "CornerFR", kind |-> "Cube", mat |-> "TreasureMetal"], [name |-> "CornerBL", kind |-> "Cube", mat |-> "TreasureMetal"], [name |-> "CornerBR", kind |-> "Cube", mat |-> "TreasureMetal"], [name |-> "Clasp", kind |-> "Cube", mat |-> "TreasureMetal"], [name |-> "Keyhole", kind |-> "Cube", mat |-> "TreasureWoodDk"], [name |-> "LidPanel", kind |-> "Cube", mat |-> "TreasureWood"], [name |-> "LidTop", kind |-> "Cube", mat |-> "TreasureWoodDk"], [name |-> "LidBand", kind |-> "Cube", mat |-> "TreasureMetal"], [name |-> "HingeL", kind |-> "Cube", mat |-> "TreasureMetal"], [name |-> "HingeR", kind |-> "Cube", mat |-> "TreasureMetal"], [name |-> "CoinBase0", kind |-> "Cylinder", mat |-> "TreasureGold"], [name |-> "CoinBase1", kind |-> "Cylinder", mat |-> "TreasureGold"], [name |-> "CoinBase2", kind |-> "Cylinder", mat |-> "TreasureGold"], [name |-> "CoinBase3", kind |-> "Cylinder", mat |-> "TreasureGold"], [name |-> "CoinBase4", kind |-> "Cylinder", mat |-> "TreasureGold"], [name |-> "CoinMid0", kind |-> "Cylinder", mat |-> "TreasureGold"], [name |-> "CoinMid1", kind |-> "Cylinder", mat |-> "TreasureGold"], [name |-> "CoinMid2", kind |-> "Cylinder", mat |-> "TreasureGold"], [name |-> "CoinMid3", kind |-> "Cylinder", mat |-> "TreasureGold"], [name |-> "CoinTop0", kind |-> "Cylinder", mat |-> "TreasureGold"], [name |-> "CoinTop1", kind |-> "Cylinder", mat |-> "TreasureGold"], [name |-> "CoinLean0", kind |-> "Cylinder", mat |-> "TreasureGold"], [name |-> "CoinLean1", kind |-> "Cylinder", mat |-> "TreasureGold"] >>] >>,
   \* main: active-clip handling around track packaging (frame 0 = no frame_set), pose-mode re-entry, camera name
   main |->
      [clear_active |-> FALSE, preview |-> "", preview_frame |-> 0, repose |-> FALSE, final |-> "", final_frame |-> 0, camera |-> "TreasureCamera"]
  ]

\* generate_troll.py: what each of its functions does, by function
generate_troll ==
  [
   \* create_materials: material names in creation order
   create_materials |->
      << "TrollSkin", "TrollSkinDark", "TrollMouth", "TrollEyes", "TrollStone", "TrollWood", "TrollTeeth", "TrollLeather", "TrollMetal" >>,
   \* build_body_parts: body parts in assembly order, each with the bone key it is grouped under and its primitives
   build_parts |->
      <<
          [name |-> "Grp_Spine", bone |-> "Spine", joined |-> TRUE,
          prims |-> << [name |-> "Torso", kind |-> "Cube", mat |-> "TrollSkin"], [name |-> "Belly", kind |-> "Cube", mat |-> "TrollSkin"], [name |-> "Belt", kind |-> "Cube", mat |-> "TrollStone"], [name |-> "BeltBuckle", kind |-> "Cube", mat |-> "TrollMetal"], [name |-> "Loincloth", kind |-> "Cube", mat |-> "TrollLeather"], [name |-> "ShoulderL", kind |-> "Cube", mat |-> "TrollStone"], [name |-> "ShoulderR", kind |-> "Cube", mat |-> "TrollStone"], [name |-> "ChestStrap", kind |-> "Cube", mat |-> "TrollLeather"] >>],
          [name |-> "Grp_Head", bone |-> "Head", joined |-> TRUE,
          prims |-> << [name |-> "Head", kind |-> "Cube", mat |-> "TrollSkin"], [name |-> "Brow", kind |-> "Cube", mat |-> "TrollSkinDark"], [name |-> "EyeL", kind |-> "Cube", mat |-> "TrollEyes"], [name |-> "EyeR", kind |-> "Cube", mat |-> "TrollEyes"], [name |-> "Nose", kind |-> "Cube", mat |-> "TrollSkinDark"], [name |-> "Jaw", kind |-> "Cube", mat |-> "TrollSkinDark"], [name |-> "Mouth", kind |-> "Cube", mat |-> "TrollMouth"], [name |-> "TuskL", kind |-> "Cone", mat |-> "TrollTeeth"], [name |-> "TuskR", kind |-> "Cone", mat |-> "TrollTeeth"], [name |-> "EarL", kind |-> "Cone", mat |-> "TrollSkinDark"], [name |-> "EarR", kind |-> "Cone", mat |-> "TrollSkinDark"] >>],
          [name |-> "ArmLUpper", bone |-> "L_UpperArm", joined |-> FALSE,
          prims |-> << [name |-> "ArmLUpper", kind |-> "Cube", mat |-> "TrollSkin"] >>],
          [name |-> "Grp_L_ForeArm", bone |-> "L_ForeArm", joined |-> TRUE,
          prims |-> << [name |-> "ArmLLower", kind |-> "Cube", mat |-> "TrollSkin"], [name |-> "HandL", kind |-> "Cube", mat |-> "TrollSkinDark"], [name |-> "WristL", kind |-> "Cube", mat |-> "TrollStone"] >>],
          [name |-> "ArmRUpper", bone |-> "R_UpperArm", joined |-> FALSE,
          prims |-> << [name |-> "ArmRUpper", kind |-> "Cube", mat |-> "TrollSkin"] >>],
          [name |-> "Grp_R_ForeArm", bone |-> "R_ForeArm", joined |-> TRUE,
          prims |-> << [name |-> "ArmRLower", kind |-> "Cube", mat |-> "TrollSkin"], [name |-> "HandR", kind |-> "Cube", mat |-> "TrollSkinDark"], [name |-> "WristR", kind |-> "Cube", mat |-> "TrollStone"], [name |-> "MaulHandle", kind |-> "Cylinder", mat |-> "TrollWood"], [name |-> "MaulHead", kind |-> "Cube", mat |-> "TrollStone"], [name |-> "MaulBand1", kind |-> "Cube", mat |-> "TrollMetal"], [name |-> "MaulBand2", kind |-> "Cube", mat |-> "TrollMetal"] >>],
          [name |-> "LegLUpper", bone |-> "L_UpperLeg", joined |-> FALSE,
          prims |-> << [name |-> "LegLUpper", kind |-> "Cube", mat |-> "TrollSkin"] >>],
          [name |-> "Grp_L_LowerLeg", bone |-> "L_LowerLeg", joined |-> TRUE,
          prims |-> << [name |-> "LegLLower", kind |-> "Cube", mat |-> "TrollLeather"], [name |-> "FootL", kind |-> "Cube", mat |-> "TrollLeather"] >>],
          [name |-> "LegRUpper", bone |-> "R_UpperLeg", joined |-> FALSE,
          prims |-> << [name |-> "LegRUpper", kind |-> "Cube", mat |-> "TrollSkin"] >>],
          [name |-> "Grp_R_LowerLeg", bone |-> "R_LowerLeg", joined |-> TRUE,
          prims |-> << [name |-> "LegRLower", kind |-> "Cube", mat |-> "TrollLeather"], [name |-> "FootR", kind |-> "Cube", mat |-> "TrollLeather"] >>] >>,
   \* create_armature: add_bone calls in order; head/tail in 1/100 units
   create_armature |->
      [obj |-> "TrollArmature", data |-> "TrollRig",
       bones |-> <<
         [name |-> "Root", head |-> <<0, 0, 35>>, tail |-> <<0, 0, 39>>, parent |-> "", connect |-> FALSE],
         [name |-> "Spine", head |-> <<0, 0, 35>>, tail |-> <<0, 0, 69>>, parent |-> "Root", connect |-> TRUE],
         [name |-> "Head", head |-> <<0, 0, 69>>, tail |-> <<0, 0, 97>>, parent |-> "Spine", connect |-> TRUE],
         [name |-> "L_UpperArm", head |-> <<-25, 0, 66>>, tail |-> <<-35, 0, 64>>, parent |-> "Spine", connect |-> FALSE],
         [name |-> "L_ForeArm", head |-> <<-35, 0, 64>>, tail |-> <<-37, 0, 37>>, parent |-> "L_UpperArm", connect |-> TRUE],
         [name |-> "R_UpperArm", head |-> <<25, 0, 66>>, tail |-> <<35, 0, 64>>, parent |-> "Spine", connect |-> FALSE],
         [name |-> "R_ForeArm", head |-> <<35, 0, 64>>, tail |-> <<37, 0, 37>>, parent |-> "R_UpperArm", connect |-> TRUE],
         [name |-> "L_UpperLeg", head |-> <<-15, 0, 35>>, tail |-> <<-15, 0, 17>>, parent |-> "Root", connect |-> FALSE],
         [name |-> "L_LowerLeg", head |-> <<-15, 0, 17>>, tail |-> <<-15, 0, 3>>, parent |-> "L_UpperLeg", connect |-> TRUE],
         [name |-> "R_UpperLeg", head |-> <<15, 0, 35>>, tail |-> <<15, 0, 17>>, parent |-> "Root", connect |-> FALSE],
         [name |-> "R_LowerLeg", head |-> <<15, 0, 17>>, tail |-> <<15, 0, 3>>, parent |-> "R_UpperLeg", connect |-> TRUE] >>],
   \* create_walk_cycle: keyframes as (frame, set_bone_rot/set_bone_loc calls after reset_pose); degrees x10, offsets x1000
   create_walk_cycle |->
      [name |-> "Walk", creates_animation_data |-> TRUE, interpolation |-> "LINEAR",
       keyframes |-> <<
         [frame |-> 1, overrides |-> <<  >>],
         [frame |-> 7, overrides |-> << [bone |-> "L_UpperLeg", path |-> "rotation_euler", value |-> <<300, 0, 0>>], [bone |-> "L_LowerLeg", path |-> "rotation_euler", value |-> <<-90, 0, 0>>], [bone |-> "R_UpperLeg", path |-> "rotation_euler", value |-> <<-300, 0, 0>>], [bone |-> "R_LowerLeg", path |-> "rotation_euler", value |-> <<0, 0, 0>>], [bone |-> "R_UpperArm", path |-> "rotation_euler", value |-> <<200, 0, 0>>], [bone |-> "R_ForeArm", path |-> "rotation_euler", value |-> <<-80, 0, 0>>], [bone |-> "L_UpperArm", path |-> "rotation_euler", value |-> <<-200, 0, 0>>], [bone |-> "L_ForeArm", path |-> "rotation_euler", value |-> <<0, 0, 0>>], [bone |-> "Root", path |-> "location", value |-> <<0, 0, 20>>], [bone |-> "Spine", path |-> "rotation_euler", value |-> <<0, 0, 30>>] >>],
         [frame |-> 13, overrides |-> <<  >>],
         [frame |-> 19, overrides |-> << [bone |-> "R_UpperLeg", path |-> "rotation_euler", value |-> <<300, 0, 0>>], [bone |-> "R_LowerLeg", path |-> "rotation_euler", value |-> <<-90, 0, 0>>], [bone |-> "L_UpperLeg", path |-> "rotation_euler", value |-> <<-300, 0, 0>>], [bone |-> "L_LowerLeg", path |-> "rotation_euler", value |-> <<0, 0, 0>>], [bone |-> "L_UpperArm", path |-> "rotation_euler", value |-> <<200, 0, 0>>], [bone |-> "L_ForeArm", path |-> "rotation_euler", value |-> <<-80, 0, 0>>], [bone |-> "R_UpperArm", path |-> "rotation_euler", value |-> <<-200, 0, 0>>], [bone |-> "R_ForeArm", path |-> "rotation_euler", value |-> <<0, 0, 0>>], [bone |-> "Root", path |-> "location", value |-> <<0, 0, 20>>], [bone |-> "Spine", path |-> "rotation_euler", value |-> <<0, 0, -30>>] >>],
         [frame |-> 25, overrides |-> <<  >>] >>],
   \* create_attack_anim: keyframes as (frame, set_bone_rot/set_bone_loc calls after reset_pose); degrees x10, offsets x1000
   create_attack_anim |->
      [name |-> "Attack", creates_animation_data |-> FALSE, interpolation |-> "BEZIER",
       keyframes |-> <<
         [frame |-> 1, overrides |-> <<  >>],
         [frame |-> 5, overrides |-> << [bone |-> "R_UpperArm", path |-> "rotation_euler", value |-> <<0, 0, -700>>], [bone |-> "R_ForeArm", path |-> "rotation_euler", value |-> <<-300, 0, 0>>], [bone |-> "Spine", path |-> "rotation_euler", value |-> <<0, 0, -50>>], [bone |-> "Head", path |-> "rotation_euler", value |-> <<0, 0, 0>>] >>],
         [frame |-> 8, overrides |-> << [bone |-> "R_UpperArm", path |-> "rotation_euler", value |-> <<0, 0, -850>>], [bone |-> "R_ForeArm", path |-> "rotation_euler", value |-> <<-400, 0, 0>>], [bone |-> "Spine", path |-> "rotation_euler", value |-> <<-50, 0, -80>>], [bone |-> "Head", path |-> "rotation_euler", value |-> <<50, 0, 0>>] >>],
         [frame |-> 11, overrides |-> << [bone |-> "R_UpperArm", path |-> "rotation_euler", value |-> <<150, 0, 300>>], [bone |-> "R_ForeArm", path |-> "rotation_euler", value |-> <<200, 0, 0>>], [bone |-> "Spine", path |-> "rotation_euler", value |-> <<80, 0, 50>>], [bone |-> "Head", path |-> "rotation_euler", value |-> <<-50, 0, 0>>], [bone |-> "Root", path |-> "location", value |-> <<0, -20, -30>>] >>],
         [frame |-> 14, overrides |-> << [bone |-> "R_UpperArm", path |-> "rotation_euler", value |-> <<100, 0, 250>>], [bone |-> "R_ForeArm", path |-> "rotation_euler", value |-> <<150, 0, 0>>], [bone |-> "Spine", path |-> "rotation_euler", value |-> <<50, 0, 30>>], [bone |-> "Root", path |-> "location", value |-> <<0, -20, -20>>] >>],
         [frame |-> 20, overrides |-> <<  >>] >>],
   \* create_die_anim: keyframes as (frame, set_bone_rot/set_bone_loc calls after reset_pose); degrees x10, offsets x1000
   create_die_anim |->
      [name |-> "Die", creates_animation_data |-> FALSE, interpolation |-> "BEZIER",
       keyframes |-> <<
         [frame |-> 1, overrides |-> <<  >>],
         [frame |-> 6, overrides |-> << [bone |-> "Spine", path |-> "rotation_euler", value |-> <<150, 0, 0>>], [bone |-> "Head", path |-> "rotation_euler", value |-> <<100, 0, 50>>], [bone |-> "R_UpperArm", path |-> "rotation_euler", value |-> <<100, 0, 200>>], [bone |-> "L_UpperArm", path |-> "rotation_euler", value |-> <<100, 0, -200>>], [bone |-> "Root", path |-> "location", value |-> <<0, -20, 0>>] >>],
         [frame |-> 12, overrides |-> << [bone |-> "Spine", path |-> "rotation_euler", value |-> <<-200, 0, 30>>], [bone |-> "Head", path |-> "rotation_euler", value |-> <<-150, 0, -50>>], [bone |-> "R_UpperArm", path |-> "rotation_euler", value |-> <<-200, 0, 300>>], [bone |-> "R_ForeArm", path |-> "rotation_euler", value |-> <<-200, 0, 0>>], [bone |-> "L_UpperArm", path |-> "rotation_euler", value |-> <<-200, 0, -300>>], [bone |-> "L_ForeArm", path |-> "rotation_euler", value |-> <<-200, 0, 0>>], [bone |-> "L_UpperLeg", path |-> "rotation_euler", value |-> <<-200, 0, 0>>], [bone |-> "R_UpperLeg", path |-> "rotation_euler", value |-> <<-200, 0, 0>>], [bone |-> "Root", path |-> "location", value |-> <<0, -50, 50>>] >>],
         [frame |-> 20, overrides |-> << [bone |-> "Spine", path |-> "rotation_euler", value |-> <<-500, 0, 50>>], [bone |-> "Head", path |-> "rotation_euler", value |-> <<-300, 0, -100>>], [bone |-> "R_UpperArm", path |-> "rotation_euler", value |-> <<-400, 0, 450>>], [bone |-> "R_ForeArm", path |-> "rotation_euler", value |-> <<-300, 0, 0>>], [bone |-> "L_UpperArm", path |-> "rotation_euler", value |-> <<-400, 0, -450>>], [bone |-> "L_ForeArm", path |-> "rotation_euler", value |-> <<-300, 0, 0>>], [bone |-> "L_UpperLeg", path |-> "rotation_euler", value |-> <<-500, 0, 0>>], [bone |-> "R_UpperLeg", path |-> "rotation_euler", value |-> <<-500, 0, 0>>], [bone |-> "Root", path |-> "location", value |-> <<0, -200, 150>>] >>],
         [frame |-> 30, overrides |-> << [bone |-> "Spine", path |-> "rotation_euler", value |-> <<-800, 0, 50>>], [bone |-> "Head", path |-> "rotation_euler", value |-> <<-16, 87, -219>>], [bone |-> "R_UpperArm", path |-> "rotation_euler", value |-> <<-300, 0, 600>>], [bone |-> "R_ForeArm", path |-> "rotation_euler", value |-> <<-554, -436, -338>>], [bone |-> "L_UpperArm", path |-> "rotation_euler", value |-> <<982, 575, 439>>], [bone |-> "L_ForeArm", path |-> "rotation_euler", value |-> <<-571, -2, 252>>], [bone |-> "L_UpperLeg", path |-> "rotation_euler", value |-> <<-800, 0, 0>>], [bone |-> "R_UpperLeg", path |-> "rotation_euler", value |-> <<-800, 0, 0>>], [bone |-> "Root", path |-> "location", value |-> <<0, -350, 300>>] >>] >>],
   \* main: active-clip handling around track packaging (frame 0 = no frame_set), pose-mode re-entry, camera name
   main |->
      [clear_active |-> FALSE, preview |-> "Die", preview_frame |-> 30, repose |-> TRUE, final |-> "", final_frame |-> 30, camera |-> "TrollCamera"]
  ]

\* generate_wall.py: what each of its functions does, by function
generate_wall ==
  [
   \* create_materials: material names in creation order
   create_materials |->
      << "WallStone", "WallStoneDk", "WallStoneLt", "WallIron" >>,
   \* build_wall: body parts in assembly order, each with the bone key it is grouped under and its primitives
   build_parts |->
      <<
          [name |-> "WallSegment", bone |-> "", joined |-> TRUE,
          prims |-> << [name |-> "WallBody", kind |-> "Cube", mat |-> "WallStone"], [name |-> "Foundation", kind |-> "Cube", mat |-> "WallStoneDk"], [name |-> "Ledge", kind |-> "Cube", mat |-> "WallStoneLt"], [name |-> "Merlon_-0.33", kind |-> "Cube", mat |-> "WallStone"], [name |-> "MerlonCap_-0.33", kind |-> "Cube", mat |-> "WallStoneLt"], [name |-> "Merlon_0.00", kind |-> "Cube", mat |-> "WallStone"], [name |-> "MerlonCap_0.00", kind |-> "Cube", mat |-> "WallStoneLt"], [name |-> "Merlon_0.33", kind |-> "Cube", mat |-> "WallStone"], [name |-> "MerlonCap_0.33", kind |-> "Cube", mat |-> "WallStoneLt"], [name |-> "MortarF_0", kind |-> "Cube", mat |-> "WallStoneDk"], [name |-> "MortarB_0", kind |-> "Cube", mat |-> "WallStoneDk"], [name |-> "MortarF_1", kind |-> "Cube", mat |-> "WallStoneDk"], [name |-> "MortarB_1", kind |-> "Cube", mat |-> "WallStoneDk"], [name |-> "MortarF_2", kind |-> "Cube", mat |-> "WallStoneDk"], [name |-> "MortarB_2", kind |-> "Cube", mat |-> "WallStoneDk"], [name |-> "VMortarF_c1_-0.17", kind |-> "Cube", mat |-> "WallStoneDk"], [name |-> "VMortarF_c1_0.17", kind |-> "Cube", mat |-> "WallStoneDk"], [name |-> "VMortarF_c2_-0.33", kind |-> "Cube", mat |-> "WallStoneDk"], [name |-> "VMortarF_c2_0.00", kind |-> "Cube", mat |-> "WallStoneDk"], [name |-> "VMortarF_c2_0.33", kind |-> "Cube", mat |-> "WallStoneDk"], [name |-> "VMortarF_c3_-0.17", kind |-> "Cube", mat |-> "WallStoneDk"], [name |-> "VMortarF_c3_0.17", kind |-> "Cube", mat |-> "WallStoneDk"], [name |-> "VMortarF_c4_-0.33", kind |-> "Cube", mat |-> "WallStoneDk"], [name |-> "VMortarF_c4_0.00", kind |-> "Cube", mat |-> "WallStoneDk"], [name |-> "VMortarF_c4_0.33", kind |-> "Cube", mat |-> "WallStoneDk"], [name |-> "IronF_0", kind |-> "Cube", mat |-> "WallIron"], [name |-> "IronB_0", kind |-> "Cube", mat |-> "WallIron"], [name |-> "IronF_1", kind |-> "Cube", mat |-> "WallIron"], [name |-> "IronB_1", kind |-> "Cube", mat |-> "WallIron"], [name |-> "StudF_-0.35_-0.44", kind |-> "Cube", mat |-> "WallIron"], [name |-> "StudB_-0.35_-0.44", kind |-> "Cube", mat |-> "WallIron"], [name |-> "StudF_-0.35_0.44", kind |-> "Cube", mat |-> "WallIron"], [name |-> "StudB_-0.35_0.44", kind |-> "Cube", mat |-> "WallIron"], [name |-> "StudF_0.4_-0.44", kind |-> "Cube", mat |-> "WallIron"], [name |-> "StudB_0.4_-0.44", kind |-> "Cube", mat |-> "WallIron"], [name |-> "StudF_0.4_0.44", kind |-> "Cube", mat |-> "WallIron"], [name |-> "StudB_0.4_0.44", kind |-> "Cube", mat |-> "WallIron"], [name |-> "Pilaster_-0.47", kind |-> "Cube", mat |-> "WallStoneDk"], [name |-> "Pilaster_0.47", kind |-> "Cube", mat |-> "WallStoneDk"], [name |-> "Tower_R", kind |-> "Tower_R_mesh", mat |-> "WallStone"], [name |-> "TowerFound_R", kind |-> "TowerFound_R_mesh", mat |-> "WallStoneDk"], [name |-> "TowerLedge_R", kind |-> "TowerLedge_R_mesh", mat |-> "WallStoneLt"], [name |-> "TMerlon_R_0", kind |-> "Cube", mat |-> "WallStone"], [name |-> "TMerlonCap_R_0", kind |-> "Cube", mat |-> "WallStoneLt"], [name |-> "TMerlon_R_1", kind |-> "Cube", mat |-> "WallStone"], [name |-> "TMerlonCap_R_1", kind |-> "Cube", mat |-> "WallStoneLt"], [name |-> "TMerlon_R_2", kind |-> "Cube", mat |-> "WallStone"], [name |-> "TMerlonCap_R_2", kind |-> "Cube", mat |-> "WallStoneLt"], [name |-> "TMerlon_R_3", kind |-> "Cube", mat |-> "WallStone"], [name |-> "TMerlonCap_R_3", kind |-> "Cube", mat |-> "WallStoneLt"], [name |-> "TMerlon_R_4", kind |-> "Cube", mat |-> "WallStone"], [name |-> "TMerlonCap_R_4", kind |-> "Cube", mat |-> "WallStoneLt"], [name |-> "TMerlon_R_5", kind |-> "Cube", mat |-> "WallStone"], [name |-> "TMerlonCap_R_5", kind |-> "Cube", mat |-> "WallStoneLt"], [name |-> "TMerlon_R_6", kind |-> "Cube", mat |-> "WallStone"], [name |-> "TMerlonCap_R_6", kind |-> "Cube", mat |-> "WallStoneLt"], [name |-> "TMerlon_R_7", kind |-> "Cube", mat |-> "WallStone"], [name |-> "TMerlonCap_R_7", kind |-> "Cube", mat |-> "WallStoneLt"], [name |-> "TowerIron_R_-0.35", kind |-> "TowerIron_R_-0.35_mesh", mat |-> "WallIron"], [name |-> "TowerIron_R_0.40", kind |-> "TowerIron_R_0.40_mesh", mat |-> "WallIron"], [name |-> "Tower_L", kind |-> "Tower_L_mesh", mat |-> "WallStone"], [name |-> "TowerFound_L", kind |-> "TowerFound_L_mesh", mat |-> "WallStoneDk"], [name |-> "TowerLedge_L", kind |-> "TowerLedge_L_mesh", mat |-> "WallStoneLt"], [name |-> "TMerlon_L_0", kind |-> "Cube", mat |-> "WallStone"], [name |-> "TMerlonCap_L_0", kind |-> "Cube", mat |-> "WallStoneLt"], [name |-> "TMerlon_L_1", kind |-> "Cube", mat |-> "WallStone"], [name |-> "TMerlonCap_L_1", kind |-> "Cube", mat |-> "WallStoneLt"], [name |-> "TMerlon_L_2", kind |-> "Cube", mat |-> "WallStone"], [name |-> "TMerlonCap_L_2", kind |-> "Cube", mat |-> "WallStoneLt"], [name |-> "TMerlon_L_3", kind |-> "Cube", mat |-> "WallStone"], [name |-> "TMerlonCap_L_3", kind |-> "Cube", mat |-> "WallStoneLt"], [name |-> "TMerlon_L_4", kind |-> "Cube", mat |-> "WallStone"], [name |-> "TMerlonCap_L_4", kind |-> "Cube", mat |-> "WallStoneLt"], [name |-> "TMerlon_L_5", kind |-> "Cube", mat |-> "WallStone"], [name |-> "TMerlonCap_L_5", kind |-> "Cube", mat |-> "WallStoneLt"], [name |-> "TMerlon_L_6", kind |-> "Cube", mat |-> "WallStone"], [name |-> "TMerlonCap_L_6", kind |-> "Cube", mat |-> "WallStoneLt"], [name |-> "TMerlon_L_7", kind |-> "Cube", mat |-> "WallStone"], [name |-> "TMerlonCap_L_7", kind |-> "Cube", mat |-> "WallStoneLt"], [name |-> "TowerIron_L_-0.35", kind |-> "TowerIron_L_-0.35_mesh", mat |-> "WallIron"], [name |-> "TowerIron_L_0.40", kind |-> "TowerIron_L_0.40_mesh", mat |-> "WallIron"] >>] >>,
   \* main: active-clip handling around track packaging (frame 0 = no frame_set), pose-mode re-entry, camera name
   main |->
      [clear_active |-> FALSE, preview |-> "", preview_frame |-> 0, repose |-> FALSE, final |-> "", final_frame |-> 0, camera |-> "WallCamera"]
  ]

\* generate_wizard.py: what each of its functions does, by function
generate_wizard ==
  [
   \* create_materials: material names in creation order
   create_materials |->
      << "WizSkin", "WizSkinDark", "WizBeard", "WizEyes", "WizMouth", "WizRobe", "WizRobeDk", "WizHat", "WizBelt", "WizLeather", "WizShoes", "WizMetal", "WizWood", "WizCrystal" >>,
   \* build_body_parts: body parts in assembly order, each with the bone key it is grouped under and its primitives
   build_parts |->
      <<
          [name |-> "Grp_Spine", bone |-> "Spine", joined |-> TRUE,
          prims |-> << [name |-> "Torso", kind |-> "Cube", mat |-> "WizSkin"], [name |-> "Robe", kind |-> "Cube", mat |-> "WizRobe"], [name |-> "RobeCollar", kind |-> "Cube", mat |-> "WizRobeDk"], [name |-> "RobeTrim", kind |-> "Cube", mat |-> "WizRobeDk"], [name |-> "RobeSkirt", kind |-> "Cube", mat |-> "WizRobe"], [name |-> "Belt", kind |-> "Cube", mat |-> "WizBelt"], [name |-> "BeltKnot", kind |-> "Cube", mat |-> "WizBelt"], [name |-> "BeltTail", kind |-> "Cube", mat |-> "WizBelt"], [name |-> "PouchL", kind |-> "Cube", mat |-> "WizLeather"], [name |-> "ScrollCase", kind |-> "Cylinder", mat |-> "WizLeather"] >>],
          [name |-> "Grp_Head", bone |-> "Head", joined |-> TRUE,
          prims |-> << [name |-> "Head", kind |-> "Cube", mat |-> "WizSkin"], [name |-> "BrowL", kind |-> "Cube", mat |-> "WizBeard"], [name |-> "BrowR", kind |-> "Cube", mat |-> "WizBeard"], [name |-> "EyeL", kind |-> "Cube", mat |-> "WizEyes"], [name |-> "EyeR", kind |-> "Cube", mat |-> "WizEyes"], [name |-> "Nose", kind |-> "Cube", mat |-> "WizSkinDark"], [name |-> "Mouth", kind |-> "Cube", mat |-> "WizMouth"], [name |-> "BeardMain", kind |-> "Cube", mat |-> "WizBeard"], [name |-> "BeardTip", kind |-> "Cone", mat |-> "WizBeard"], [name |-> "Mustache", kind |-> "Cube", mat |-> "WizBeard"], [name |-> "EarL", kind |-> "Cube", mat |-> "WizSkinDark"], [name |-> "EarR", kind |-> "Cube", mat |-> "WizSkinDark"], [name |-> "HatBrim", kind |-> "Cube", mat |-> "WizHat"], [name |-> "HatCone", kind |-> "Cone", mat |-> "WizHat"], [name |-> "HatBand", kind |-> "Cube", mat |-> "WizRobeDk"] >>],
          [name |-> "Grp_L_UpperArm", bone |-> "L_UpperArm", joined |-> TRUE,
          prims |-> << [name |-> "ArmLU", kind |-> "Cube", mat |-> "WizRobe"], [name |-> "SleeveCuffL", kind |-> "Cube", mat |-> "WizRobeDk"] >>],
          [name |-> "Grp_L_ForeArm", bone |-> "L_ForeArm", joined |-> TRUE,
          prims |-> << [name |-> "ArmLL", kind |-> "Cube", mat |-> "WizRobe"] >>],
          [name |-> "HandL", bone |-> "L_Hand", joined |-> FALSE,
          prims |-> << [name |-> "HandL", kind |-> "Cube", mat |-> "WizSkinDark"] >>],
          [name |-> "Grp_R_UpperArm", bone |-> "R_UpperArm", joined |-> TRUE,
          prims |-> << [name |-> "ArmRU", kind |-> "Cube", mat |-> "WizRobe"], [name |-> "SleeveCuffR", kind |-> "Cube", mat |-> "WizRobeDk"] >>],
          [name |-> "Grp_R_ForeArm", bone |-> "R_ForeArm", joined |-> TRUE,
          prims |-> << [name |-> "ArmRL", kind |-> "Cube", mat |-> "WizRobe"] >>],
          [name |-> "Grp_R_Hand", bone |-> "R_Hand", joined |-> TRUE,
          prims |-> << [name |-> "HandR", kind |-> "Cube", mat |-> "WizSkinDark"], [name |-> "StaffShaft", kind |-> "Cylinder", mat |-> "WizWood"], [name |-> "StaffMount", kind |-> "Cube", mat |-> "WizMetal"], [name |-> "Prong1", kind |-> "Cube", mat |-> "WizMetal"], [name |-> "Prong2", kind |-> "Cube", mat |-> "WizMetal"], [name |-> "Prong3", kind |-> "Cube", mat |-> "WizMetal"], [name |-> "Prong4", kind |-> "Cube", mat |-> "WizMetal"], [name |-> "Crystal", kind |-> "Cube", mat |-> "WizCrystal"], [name |-> "StaffFerrule", kind |-> "Cylinder", mat |-> "WizMetal"] >>],
          [name |-> "LegLU", bone |-> "L_UpperLeg", joined |-> FALSE,
          prims |-> << [name |-> "LegLU", kind |-> "Cube", mat |-> "WizRobeDk"] >>],
          [name |-> "Grp_L_LowerLeg", bone |-> "L_LowerLeg", joined |-> TRUE,
          prims |-> << [name |-> "LegLL", kind |-> "Cube", mat |-> "WizRobeDk"], [name |-> "ShoeL", kind |-> "Cube", mat |-> "WizShoes"] >>],
          [name |-> "LegRU", bone |-> "R_UpperLeg", joined |-> FALSE,
          prims |-> << [name |-> "LegRU", kind |-> "Cube", mat |-> "WizRobeDk"] >>],
          [name |-> "Grp_R_LowerLeg", bone |-> "R_LowerLeg", joined |-> TRUE,
          prims |-> << [name |-> "LegRL", kind |-> "Cube", mat |-> "WizRobeDk"], [name |-> "ShoeR", kind |-> "Cube", mat |-> "WizShoes"] >>] >>,
   \* create_armature: add_bone calls in order; head/tail in 1/100 units
   create_armature |->
      [obj |-> "WizardArmature", data |-> "WizardRig",
       bones |-> <<
         [name |-> "Root", head |-> <<0, 0, 26>>, tail |-> <<0, 0, 30>>, parent |-> "", connect |-> FALSE],
         [name |-> "Spine", head |-> <<0, 0, 26>>, tail |-> <<0, 0, 52>>, parent |-> "Root", connect |-> TRUE],
         [name |-> "Head", head |-> <<0, 0, 52>>, tail |-> <<0, 0, 70>>, parent |-> "Spine", connect |-> TRUE],
         [name |-> "L_UpperArm", head |-> <<-12, 0, 50>>, tail |-> <<-16, 0, 46>>, parent |-> "Spine", connect |-> FALSE],
         [name |-> "L_ForeArm", head |-> <<-16, 0, 46>>, tail |-> <<-17, 0, 30>>, parent |-> "L_UpperArm", connect |-> TRUE],
         [name |-> "L_Hand", head |-> <<-17, 0, 30>>, tail |-> <<-17, 0, 25>>, parent |-> "L_ForeArm", connect |-> TRUE],
         [name |-> "R_UpperArm", head |-> <<12, 0, 50>>, tail |-> <<16, 0, 46>>, parent |-> "Spine", connect |-> FALSE],
         [name |-> "R_ForeArm", head |-> <<16, 0, 46>>, tail |-> <<17, 0, 30>>, parent |-> "R_UpperArm", connect |-> TRUE],
         [name |-> "R_Hand", head |-> <<17, 0, 30>>, tail |-> <<17, 0, 25>>, parent |-> "R_ForeArm", connect |-> TRUE],
         [name |-> "L_UpperLeg", head |-> <<-7, 0, 26>>, tail |-> <<-7, 0, 14>>, parent |-> "Root", connect |-> FALSE],
         [name |-> "L_LowerLeg", head |-> <<-7, 0, 14>>, tail |-> <<-7, 0, 3>>, parent |-> "L_UpperLeg", connect |-> TRUE],
         [name |-> "R_UpperLeg", head |-> <<7, 0, 26>>, tail |-> <<7, 0, 14>>, parent |-> "Root", connect |-> FALSE],
         [name |-> "R_LowerLeg", head |-> <<7, 0, 14>>, tail |-> <<7, 0, 3>>, parent |-> "R_UpperLeg", connect |-> TRUE] >>],
   \* create_walk_cycle: keyframes as (frame, set_bone_rot/set_bone_loc calls after reset_pose); degrees x10, offsets x1000
   create_walk_cycle |->
      [name |-> "Walk", creates_animation_data |-> TRUE, interpolation |-> "LINEAR",
       keyframes |-> <<
         [frame |-> 1, overrides |-> << [bone |-> "R_ForeArm", path |-> "rotation_euler", value |-> <<-900, 0, 0>>] >>],
         [frame |-> 7, overrides |-> << [bone |-> "R_ForeArm", path |-> "rotation_euler", value |-> <<-900, 0, 0>>], [bone |-> "L_UpperLeg", path |-> "rotation_euler", value |-> <<250, 0, 0>>], [bone |-> "L_LowerLeg", path |-> "rotation_euler", value |-> <<-75, 0, 0>>], [bone |-> "R_UpperLeg", path |-> "rotation_euler", value |-> <<-250, 0, 0>>], [bone |-> "L_UpperArm", path |-> "rotation_euler", value |-> <<200, 0, 0>>], [bone |-> "L_ForeArm", path |-> "rotation_euler", value |-> <<-80, 0, 0>>], [bone |-> "Root", path |-> "location", value |-> <<0, 0, 15>>], [bone |-> "Spine", path |-> "rotation_euler", value |-> <<0, 0, 20>>] >>],
         [frame |-> 13, overrides |-> << [bone |-> "R_ForeArm", path |-> "rotation_euler", value |-> <<-900, 0, 0>>] >>],
         [frame |-> 19, overrides |-> << [bone |-> "R_ForeArm", path |-> "rotation_euler", value |-> <<-900, 0, 0>>], [bone |-> "R_UpperLeg", path |-> "rotation_euler", value |-> <<250, 0, 0>>], [bone |-> "R_LowerLeg", path |-> "rotation_euler", value |-> <<-75, 0, 0>>], [bone |-> "L_UpperLeg", path |-> "rotation_euler", value |-> <<-250, 0, 0>>], [bone |-> "L_UpperArm", path |-> "rotation_euler", value |-> <<-200, 0, 0>>], [bone |-> "Root", path |-> "location", value |-> <<0, 0, 15>>], [bone |-> "Spine", path |-> "rotation_euler", value |-> <<0, 0, -20>>] >>],
         [frame |-> 25, overrides |-> << [bone |-> "R_ForeArm", path |-> "rotation_euler", value |-> <<-900, 0, 0>>] >>] >>],
   \* create_attack_anim: keyframes as (frame, set_bone_rot/set_bone_loc calls after reset_pose); degrees x10, offsets x1000
   create_attack_anim |->
      [name |-> "Attack", creates_animation_data |-> FALSE, interpolation |-> "BEZIER",
       keyframes |-> <<
         [frame |-> 1, overrides |-> << [bone |-> "R_ForeArm", path |-> "rotation_euler", value |-> <<-900, 0, 0>>] >>],
         [frame |-> 6, overrides |-> << [bone |-> "R_UpperArm", path |-> "rotation_euler", value |-> <<0, 0, -300>>], [bone |-> "R_ForeArm", path |-> "rotation_euler", value |-> <<-750, 0, 0>>], [bone |-> "L_UpperArm", path |-> "rotation_euler", value |-> <<-200, 300, 200>>], [bone |-> "L_ForeArm", path |-> "rotation_euler", value |-> <<-300, 0, 0>>], [bone |-> "Spine", path |-> "rotation_euler", value |-> <<-50, 0, 0>>] >>],
         [frame |-> 11, overrides |-> << [bone |-> "R_UpperArm", path |-> "rotation_euler", value |-> <<0, 0, -450>>], [bone |-> "R_ForeArm", path |-> "rotation_euler", value |-> <<-600, 0, 0>>], [bone |-> "L_UpperArm", path |-> "rotation_euler", value |-> <<-300, 350, 250>>], [bone |-> "L_ForeArm", path |-> "rotation_euler", value |-> <<-400, 0, 0>>], [bone |-> "Spine", path |-> "rotation_euler", value |-> <<-80, 0, 0>>], [bone |-> "Head", path |-> "rotation_euler", value |-> <<50, 0, 0>>] >>],
         [frame |-> 16, overrides |-> << [bone |-> "R_UpperArm", path |-> "rotation_euler", value |-> <<50, 0, -200>>], [bone |-> "R_ForeArm", path |-> "rotation_euler", value |-> <<-800, 0, 0>>], [bone |-> "L_UpperArm", path |-> "rotation_euler", value |-> <<-100, 150, 100>>], [bone |-> "L_ForeArm", path |-> "rotation_euler", value |-> <<-150, 0, 0>>], [bone |-> "Spine", path |-> "rotation_euler", value |-> <<30, 0, 0>>] >>],
         [frame |-> 20, overrides |-> << [bone |-> "R_ForeArm", path |-> "rotation_euler", value |-> <<-900, 0, 0>>] >>] >>],
   \* create_die_anim: keyframes as (frame, set_bone_rot/set_bone_loc calls after reset_pose); degrees x10, offsets x1000
   create_die_anim |->
      [name |-> "Die", creates_animation_data |-> FALSE, interpolation |-> "BEZIER",
       keyframes |-> <<
         [frame |-> 1, overrides |-> <<  >>],
         [frame |-> 6, overrides |-> << [bone |-> "Spine", path |-> "rotation_euler", value |-> <<150, 0, 0>>], [bone |-> "Head", path |-> "rotation_euler", value |-> <<100, 0, 50>>], [bone |-> "R_UpperArm", path |-> "rotation_euler", value |-> <<100, 0, 200>>], [bone |-> "L_UpperArm", path |-> "rotation_euler", value |-> <<100, 0, -200>>], [bone |-> "Root", path |-> "location", value |-> <<0, -20, 0>>] >>],
         [frame |-> 12, overrides |-> << [bone |-> "Spine", path |-> "rotation_euler", value |-> <<-200, 0, 30>>], [bone |-> "Head", path |-> "rotation_euler", value |-> <<-150, 0, -50>>], [bone |-> "R_UpperArm", path |-> "rotation_euler", value |-> <<-200, 0, 300>>], [bone |-> "R_ForeArm", path |-> "rotation_euler", value |-> <<-200, 0, 0>>], [bone |-> "L_UpperArm", path |-> "rotation_euler", value |-> <<-200, 0, -300>>], [bone |-> "L_ForeArm", path |-> "rotation_euler", value |-> <<-200, 0, 0>>], [bone |-> "L_UpperLeg", path |-> "rotation_euler", value |-> <<-200, 0, 0>>], [bone |-> "R_UpperLeg", path |-> "rotation_euler", value |-> <<-200, 0, 0>>], [bone |-> "Root", path |-> "location", value |-> <<0, -50, 50>>] >>],
         [frame |-> 20, overrides |-> << [bone |-> "Spine", path |-> "rotation_euler", value |-> <<-500, 0, 50>>], [bone |-> "Head", path |-> "rotation_euler", value |-> <<-300, 0, -100>>], [bone |-> "R_UpperArm", path |-> "rotation_euler", value |-> <<-400, 0, 450>>], [bone |-> "R_ForeArm", path |-> "rotation_euler", value |-> <<-300, 0, 0>>], [bone |-> "L_UpperArm", path |-> "rotation_euler", value |-> <<-400, 0, -450>>], [bone |-> "L_ForeArm", path |-> "rotation_euler", value |-> <<-300, 0, 0>>], [bone |-> "L_UpperLeg", path |-> "rotation_euler", value |-> <<-500, 0, 0>>], [bone |-> "R_UpperLeg", path |-> "rotation_euler", value |-> <<-500, 0, 0>>], [bone |-> "Root", path |-> "location", value |-> <<0, -200, 150>>] >>],
         [frame |-> 30, overrides |-> << [bone |-> "Spine", path |-> "rotation_euler", value |-> <<-800, 0, 50>>], [bone |-> "Head", path |-> "rotation_euler", value |-> <<-400, 0, -150>>], [bone |-> "L_UpperArm", path |-> "rotation_euler", value |-> <<1615, -218, -929>>], [bone |-> "L_ForeArm", path |-> "rotation_euler", value |-> <<-100, 0, -200>>], [bone |-> "R_UpperArm", path |-> "rotation_euler", value |-> <<691, -418, -460>>], [bone |-> "R_ForeArm", path |-> "rotation_euler", value |-> <<-100, 0, 200>>], [bone |-> "L_UpperLeg", path |-> "rotation_euler", value |-> <<-677, 303, 233>>], [bone |-> "L_LowerLeg", path |-> "rotation_euler", value |-> <<100, 0, 0>>], [bone |-> "R_UpperLeg", path |-> "rotation_euler", value |-> <<-740, -160, -208>>], [bone |-> "R_LowerLeg", path |-> "rotation_euler", value |-> <<100, 0, 0>>], [bone |-> "Root", path |-> "location", value |-> <<0, -350, 300>>] >>] >>],
   \* main: active-clip handling around track packaging (frame 0 = no frame_set), pose-mode re-entry, camera name
   main |->
      [clear_active |-> FALSE, preview |-> "Attack", preview_frame |-> 1, repose |-> TRUE, final |-> "Attack", final_frame |-> 1, camera |-> "WizardCamera"]
  ]

\* The generator scripts (generate_<name>.py)
Generators ==
  { "ballista", "basic_orc", "bow_orc", "crossbowman", "engineer", "gate", "goblin_cannoneer", "menial", "orc_war_boss", "pikeman", "suicide_goblin", "torch", "tower", "treasure", "troll", "wall", "wizard" }

\* create_materials of generator g
MaterialNames(g) ==
  CASE g = "ballista" -> generate_ballista.create_materials
    [] g = "basic_orc" -> generate_basic_orc.create_materials
    [] g = "bow_orc" -> generate_bow_orc.create_materials
    [] g = "crossbowman" -> generate_crossbowman.create_materials
    [] g = "engineer" -> generate_engineer.create_materials
    [] g = "gate" -> generate_gate.create_materials
    [] g = "goblin_cannoneer" -> generate_goblin_cannoneer.create_materials
    [] g = "menial" -> generate_menial.create_materials
    [] g = "orc_war_boss" -> generate_orc_war_boss.create_materials
    [] g = "pikeman" -> generate_pikeman.create_materials
    [] g = "suicide_goblin" -> generate_suicide_goblin.create_materials
    [] g = "torch" -> generate_torch.create_materials
    [] g = "tower" -> generate_tower.create_materials
    [] g = "treasure" -> generate_treasure.create_materials
    [] g = "troll" -> generate_troll.create_materials
    [] g = "wall" -> generate_wall.create_materials
    [] g = "wizard" -> generate_wizard.create_materials

\* the body parts generator g assembles
Parts(g) ==
  CASE g = "ballista" -> generate_ballista.build_parts
    [] g = "basic_orc" -> generate_basic_orc.build_parts
    [] g = "bow_orc" -> generate_bow_orc.build_parts
    [] g = "crossbowman" -> generate_crossbowman.build_parts
    [] g = "engineer" -> generate_engineer.build_parts
    [] g = "gate" -> generate_gate.build_parts
    [] g = "goblin_cannoneer" -> generate_goblin_cannoneer.build_parts
    [] g = "menial" -> generate_menial.build_parts
    [] g = "orc_war_boss" -> generate_orc_war_boss.build_parts
    [] g = "pikeman" -> generate_pikeman.build_parts
    [] g = "suicide_goblin" -> generate_suicide_goblin.build_parts
    [] g = "torch" -> generate_torch.build_parts
    [] g = "tower" -> generate_tower.build_parts
    [] g = "treasure" -> generate_treasure.build_parts
    [] g = "troll" -> generate_troll.build_parts
    [] g = "wall" -> generate_wall.build_parts
    [] g = "wizard" -> generate_wizard.build_parts

\* the armature generator g builds (none for static props)
Skeleton(g) ==
  CASE g = "basic_orc" -> generate_basic_orc.create_armature
    [] g = "bow_orc" -> generate_bow_orc.create_armature
    [] g = "crossbowman" -> generate_crossbowman.create_armature
    [] g = "engineer" -> generate_engineer.create_armature
    [] g = "gate" -> generate_gate.build_armature
    [] g = "goblin_cannoneer" -> generate_goblin_cannoneer.create_armature
    [] g = "menial" -> generate_menial.create_armature
    [] g = "orc_war_boss" -> generate_orc_war_boss.create_armature
    [] g = "pikeman" -> generate_pikeman.create_armature
    [] g = "suicide_goblin" -> generate_suicide_goblin.create_armature
    [] g = "troll" -> generate_troll.create_armature
    [] g = "wizard" -> generate_wizard.create_armature
    [] OTHER -> [obj |-> "", data |-> "", bones |-> << >>]

\* a main that authors Attack before Walk
ClipsAttackFirst(g) ==
  CASE g = "basic_orc" -> << generate_basic_orc.create_attack_anim, generate_basic_orc.create_walk_cycle, generate_basic_orc.create_die_anim >>
    [] g = "bow_orc" -> << generate_bow_orc.create_attack_anim, generate_bow_orc.create_walk_cycle, generate_bow_orc.create_die_anim >>
    [] g = "crossbowman" -> << generate_crossbowman.create_attack_anim, generate_crossbowman.create_walk_cycle, generate_crossbowman.create_die_anim >>
    [] g = "engineer" -> << generate_engineer.create_attack_anim, generate_engineer.create_walk_cycle, generate_engineer.create_die_anim >>
    [] g = "goblin_cannoneer" -> << generate_goblin_cannoneer.create_attack_anim, generate_goblin_cannoneer.create_walk_cycle, generate_goblin_cannoneer.create_die_anim >>
    [] g = "menial" -> << generate_menial.create_attack_anim, generate_menial.create_walk_cycle, generate_menial.create_die_anim >>
    [] g = "orc_war_boss" -> << generate_orc_war_boss.create_attack_anim, generate_orc_war_boss.create_walk_cycle, generate_orc_war_boss.create_die_anim >>
    [] g = "pikeman" -> << generate_pikeman.create_attack_anim, generate_pikeman.create_walk_cycle, generate_pikeman.create_die_anim >>
    [] g = "suicide_goblin" -> << generate_suicide_goblin.create_attack_anim, generate_suicide_goblin.create_walk_cycle, generate_suicide_goblin.create_die_anim >>
    [] g = "troll" -> << generate_troll.create_attack_anim, generate_troll.create_walk_cycle, generate_troll.create_die_anim >>
    [] g = "wizard" -> << generate_wizard.create_attack_anim, generate_wizard.create_walk_cycle, generate_wizard.create_die_anim >>
    [] OTHER -> << >>

\* the clips main of generator g authors, in order
Clips(g) ==
  CASE g = "basic_orc" -> << generate_basic_orc.create_walk_cycle, generate_basic_orc.create_attack_anim, generate_basic_orc.create_die_anim >>
    [] g = "bow_orc" -> << generate_bow_orc.create_walk_cycle, generate_bow_orc.create_attack_anim, generate_bow_orc.create_die_anim >>
    [] g = "crossbowman" -> << generate_crossbowman.create_walk_cycle, generate_crossbowman.create_attack_anim, generate_crossbowman.create_die_anim >>
    [] g = "engineer" -> << generate_engineer.create_walk_cycle, generate_engineer.create_attack_anim, generate_engineer.create_die_anim >>
    [] g = "goblin_cannoneer" -> << generate_goblin_cannoneer.create_walk_cycle, generate_goblin_cannoneer.create_attack_anim, generate_goblin_cannoneer.create_die_anim >>
    [] g = "menial" -> << generate_menial.create_walk_cycle, generate_menial.create_attack_anim, generate_menial.create_die_anim >>
    [] g = "orc_war_boss" -> << generate_orc_war_boss.create_walk_cycle, generate_orc_war_boss.create_attack_anim, generate_orc_war_boss.create_die_anim >>
    [] g = "pikeman" -> << generate_pikeman.create_walk_cycle, generate_pikeman.create_attack_anim, generate_pikeman.create_die_anim >>
    [] g = "suicide_goblin" -> << generate_suicide_goblin.create_walk_cycle, generate_suicide_goblin.create_attack_anim, generate_suicide_goblin.create_die_anim >>
    [] g = "troll" -> << generate_troll.create_walk_cycle, generate_troll.create_attack_anim, generate_troll.create_die_anim >>
    [] g = "wizard" -> << generate_wizard.create_walk_cycle, generate_wizard.create_attack_anim, generate_wizard.create_die_anim >>
    [] OTHER -> << >>

\* main of generator g
Main(g) ==
  CASE g = "ballista" -> generate_ballista.main
    [] g = "basic_orc" -> generate_basic_orc.main
    [] g = "bow_orc" -> generate_bow_orc.main
    [] g = "crossbowman" -> generate_crossbowman.main
    [] g = "engineer" -> generate_engineer.main
    [] g = "gate" -> generate_gate.main
    [] g = "goblin_cannoneer" -> generate_goblin_cannoneer.main
    [] g = "menial" -> generate_menial.main
    [] g = "orc_war_boss" -> generate_orc_war_boss.main
    [] g = "pikeman" -> generate_pikeman.main
    [] g = "suicide_goblin" -> generate_suicide_goblin.main
    [] g = "torch" -> generate_torch.main
    [] g = "tower" -> generate_tower.main
    [] g = "treasure" -> generate_treasure.main
    [] g = "troll" -> generate_troll.main
    [] g = "wall" -> generate_wall.main
    [] g = "wizard" -> generate_wizard.main

\* ---------------------------------------------------------------- helpers
\* "no datablock": the value of an unset pointer (None)
NoName == [b |-> "", n |-> 0]

\* a bone name no skeleton defines (the key of a miskeyed body part)
NoSuchBone == "NoSuchBone"

\* the rest value of a rotation or an offset
Zero3 == <<0, 0, 0>>

Restrict(f, S) == [x \in S |-> f[x]]

\* the (c+1)-th smallest suffix k for which base(.00k) is not taken
NthFreeSuffix(base, taken, c) ==
  LET used == {x.n : x \in {y \in taken : y.b = base}}
  IN CHOOSE k \in 0..(Cardinality(used) + c) :
       /\ k \notin used
       /\ k - Cardinality({j \in used : j < k}) = c

FreeSuffix(base, taken) == NthFreeSuffix(base, taken, 0)

\* bpy.data.<coll>.new(name) / ID.name = name: the name, or the first free ".00k"
UniqueName(base, taken) == [b |-> base, n |-> FreeSuffix(base, taken)]

\* number of objects whose data is the datablock nm of the given type
ObjectUsers(objects, type, nm) ==
  Cardinality({o \in DOMAIN objects : objects[o].type = type /\ objects[o].data = nm})

\* number of references animation data holds on the action a
AnimUsers(ad, a) ==
  (IF ad.exists /\ ad.action = a THEN 1 ELSE 0)
  + Cardinality({<<i, j>> \in (1..Len(ad.nla_tracks)) \X (1..Len(ad.nla_tracks)) :
                   j <= Len(ad.nla_tracks[i].strips) /\ ad.nla_tracks[i].strips[j].action = a})

NoAnimData == [exists |-> FALSE, action |-> NoName, nla_tracks |-> << >>]

\* ---------------------------------------------------------------- Reset
\* bpy.ops.object.select_all(action='SELECT'); bpy.ops.object.delete():
\* every object leaves the session; each datablock loses the users the
\* deleted objects (and the armature object's animation data) held on it
delete_all_objects(d) ==
  [d EXCEPT
     !.objects = << >>,
     !.meshes = [m \in DOMAIN d.meshes |->
                   [d.meshes[m] EXCEPT !.users = @ - ObjectUsers(d.objects, "MESH", m)]],
     !.armatures = [a \in DOMAIN d.armatures |->
                   [d.armatures[a] EXCEPT !.users = @ - ObjectUsers(d.objects, "ARMATURE", a)]],
     !.lights = [l \in DOMAIN d.lights |->
                   [d.lights[l] EXCEPT !.users = @ - ObjectUsers(d.objects, "LIGHT", l)]],
     !.cameras = [c \in DOMAIN d.cameras |->
                   [d.cameras[c] EXCEPT !.users = @ - ObjectUsers(d.objects, "CAMERA", c)]],
     !.actions = [a \in DOMAIN d.actions |->
                   [d.actions[a] EXCEPT !.users = @ - AnimUsers(d.animation_data, a)]],
     !.pose = << >>,
     !.animation_data = NoAnimData,
     !.mode = "OBJECT",
     !.scene = [@ EXCEPT !.camera = NoName]]

\* the poll of bpy.ops.object.select_all / delete / light_add ...: the
\* operators of the object category refuse to run (RuntimeError: poll()
\* failed, context is incorrect) unless the session is in Object mode
object_operators_poll(d) == d.mode = "OBJECT"

\* for block in bpy.data.meshes: if block.users == 0: remove(block)
\* (a removed mesh releases the materials in its slots)
purge_meshes(d) ==
  LET keep == {m \in DOMAIN d.meshes : d.meshes[m].users # 0}
      gone == DOMAIN d.meshes \ keep
  IN [d EXCEPT
        !.meshes = Restrict(d.meshes, keep),
        !.materials = [mt \in DOMAIN d.materials |->
           [d.materials[mt] EXCEPT
              !.users = @ - Cardinality({m \in gone : mt \in d.meshes[m].materials})]]]

\* for block in bpy.data.armatures: if block.users == 0: remove(block)
purge_armatures(d) ==
  [d EXCEPT !.armatures =
     Restrict(d.armatures, {a \in DOMAIN d.armatures : d.armatures[a].users # 0})]

\* for block in list(bpy.data.actions): use_fake_user = False; remove(block)
purge_actions_keeping_retained(d) ==
  [d EXCEPT !.actions =
     Restrict(d.actions, {a \in DOMAIN d.actions : d.actions[a].use_fake_user})]

purge_actions(d) ==
  [d EXCEPT !.actions = << >>]

\* for block in bpy.data.materials: if block.users == 0: remove(block)
purge_materials(d) ==
  [d EXCEPT !.materials =
     Restrict(d.materials, {m \in DOMAIN d.materials : d.materials[m].users # 0})]

\* a Reset that purges the materials before the meshes
clear_scene_materials_first(d) ==
  IF ~object_operators_poll(d) THEN [ok |-> FALSE, d |-> d]
  ELSE [ok |-> TRUE,
        d |-> purge_meshes(purge_actions(purge_armatures(purge_materials(delete_all_objects(d)))))]

\* clear_scene(): select_all and delete every object (RuntimeError, with
\* nothing deleted, when the session is not in Object mode), then purge the
\* unused meshes, the unused armatures, every action, and last the unused
\* materials
clear_scene(d) ==
  IF ~object_operators_poll(d) THEN [ok |-> FALSE, d |-> d]
  ELSE [ok |-> TRUE,
        d |-> purge_materials(purge_actions(purge_armatures(purge_meshes(delete_all_objects(d)))))]

\* ---------------------------------------------------------------- materials
\* make_material(name, ...): bpy.data.materials.new(name); returns the new
\* session with the datablock added (zero users)
make_material(d, name, r) ==
  [d EXCEPT !.materials =
     @ @@ (UniqueName(name, DOMAIN d.materials) :> [users |-> 0, born |-> r])]

RECURSIVE make_materials(_, _, _)
make_materials(d, names, r) ==
  IF names = << >> THEN d
  ELSE make_materials(make_material(d, Head(names), r), Tail(names), r)

\* the MAT_* globals after create_materials: base name -> datablock created
RECURSIVE material_globals(_, _, _)
material_globals(d, names, r) ==
  IF names = << >> THEN << >>
  ELSE (Head(names) :> UniqueName(Head(names), DOMAIN d.materials))
       @@ material_globals(make_material(d, Head(names), r), Tail(names), r)

\* ---------------------------------------------------------------- primitives, body parts
\* the mesh names the primitives of a part receive, in creation order: each
\* takes the first suffix of its kind that is free when it is created
primitive_names(taken, prims) ==
  [i \in 1..Len(prims) |->
     [b |-> prims[i].kind,
      n |-> NthFreeSuffix(prims[i].kind, taken,
                          Cardinality({j \in 1..(i - 1) : prims[j].kind = prims[i].kind}))]]

\* the object names the primitives of a part receive (obj.name = name), in
\* creation order
object_names(taken, prims) ==
  [i \in 1..Len(prims) |->
     [b |-> prims[i].name,
      n |-> NthFreeSuffix(prims[i].name, taken,
                          Cardinality({j \in 1..(i - 1) : prims[j].name = prims[i].name}))]]

\* add_cube / add_wedge / add_cylinder / add_sphere, for the primitives of one
\* part: each is a new object named after the primitive, with a new mesh
\* datablock that has one material slot and is used by that object
add_primitives(d, prims, mats, r) ==
  LET names == primitive_names(DOMAIN d.meshes, prims)
      objs == object_names(DOMAIN d.objects, prims)
      new == {names[i] : i \in 1..Len(prims)}
      idx_of(nm) == CHOOSE i \in 1..Len(prims) : names[i] = nm
      obj_idx(o) == CHOOSE i \in 1..Len(prims) : objs[i] = o
  IN [d EXCEPT
        !.meshes = [m \in DOMAIN d.meshes \cup new |->
                      IF m \in new
                      THEN [users |-> 1, materials |-> {mats[prims[idx_of(m)].mat]}, born |-> r]
                      ELSE d.meshes[m]],
        !.materials = [mt \in DOMAIN d.materials |->
                      [d.materials[mt] EXCEPT
                         !.users = @ + Cardinality({i \in 1..Len(prims) : mats[prims[i].mat] = mt})]],
        !.objects = [o \in DOMAIN d.objects \cup {objs[i] : i \in 1..Len(prims)} |->
                      IF o \in DOMAIN d.objects THEN d.objects[o]
                      ELSE [type |-> "MESH", data |-> names[obj_idx(o)], parent |-> NoName,
                            parent_type |-> "OBJECT", parent_bone |-> "", vertex_groups |-> {},
                            modifiers |-> {}, born |-> r]]]

\* a join that merges the geometry into objects[0] and leaves the other
\* objects in the scene
join_objects_keeping_sources(d, objs) ==
  LET target == d.objects[objs[1]].data
      merged == UNION {d.meshes[d.objects[objs[i]].data].materials : i \in 1..Len(objs)}
      added  == merged \ d.meshes[target].materials
  IN [d EXCEPT
        !.meshes[target].materials = merged,
        !.materials = [mt \in DOMAIN d.materials |->
                      IF mt \in added THEN [d.materials[mt] EXCEPT !.users = @ + 1]
                      ELSE d.materials[mt]]]

\* join_objects(objects, name), up to bpy.ops.object.join(): the selected
\* objects are merged into objects[0]; the other objects are removed from
\* the scene, their meshes stay behind without users
join_objects(d, objs) ==
  LET target == d.objects[objs[1]].data
      gone   == {objs[i] : i \in 2..Len(objs)}
      others == {d.objects[o].data : o \in gone}
      merged == UNION {d.meshes[d.objects[objs[i]].data].materials : i \in 1..Len(objs)}
      added  == merged \ d.meshes[target].materials
  IN [d EXCEPT
        !.objects = Restrict(d.objects, DOMAIN d.objects \ gone),
        !.meshes = [m \in DOMAIN d.meshes |->
                      IF m = target THEN [d.meshes[m] EXCEPT !.materials = merged]
                      ELSE IF m \in others THEN [d.meshes[m] EXCEPT !.users = @ - 1]
                      ELSE d.meshes[m]],
        !.materials = [mt \in DOMAIN d.materials |->
                      IF mt \in added THEN [d.materials[mt] EXCEPT !.users = @ + 1]
                      ELSE d.materials[mt]]]

\* result = bpy.context.active_object; result.name = name
rename_object(d, obj, name) ==
  LET nn == UniqueName(name, DOMAIN d.objects \ {obj})
  IN [d EXCEPT !.objects = [o \in (DOMAIN d.objects \ {obj}) \cup {nn} |->
                              IF o = nn THEN d.objects[obj] ELSE d.objects[o]]]

\* the object a body part ends up as (result.name = name / obj.name = name)
part_object(d, part) == UniqueName(part.name, DOMAIN d.objects)

\* one body part of build_body_parts: its primitives, then the join
assemble(d, part, mats, r) ==
  LET objs == object_names(DOMAIN d.objects, part.prims)
      d1 == add_primitives(d, part.prims, mats, r)
  IN IF part.joined THEN rename_object(join_objects(d1, objs), objs[1], part.name) ELSE d1

\* ---------------------------------------------------------------- skeleton
BoneNames(bones) == {bones[i].name : i \in 1..Len(bones)}

\* the numeric suffixes Blender tries, in order, for a name already taken
NameSuffixes == <<".001", ".002", ".003">>

\* arm.edit_bones.new(name): the bone gets the name asked for, or, when a
\* bone of that name exists, the name with the first free numeric suffix
edit_bone_name(bones, name) ==
  IF name \notin BoneNames(bones) THEN name
  ELSE LET free == {k \in 1..Len(NameSuffixes) : (name \o NameSuffixes[k]) \notin BoneNames(bones)}
       IN name \o NameSuffixes[CHOOSE k \in free : \A j \in free : k <= j]

\* the tail of the edit bone called name
bone_tail(bones, name) ==
  bones[CHOOSE i \in 1..Len(bones) : bones[i].name = name].tail

\* add_bone wired to itself instead of to the named parent
add_bone_self_parent(bones, b) ==
  [ok |-> TRUE,
   bones |-> Append(bones, [name |-> edit_bone_name(bones, b.name), head |-> b.head, tail |-> b.tail,
                            parent |-> IF b.parent = "" THEN "" ELSE b.name,
                            use_connect |-> b.parent # "" /\ b.connect])]

\* add_bone(name, head, tail, parent_name, connect): b = edit_bones.new(name)
\* first; then, if parent_name: b.parent = arm.edit_bones[parent_name]
\* (KeyError for a name no bone has, the new bone staying in the armature
\* without parent; Blender leaves the parent unset when it is the bone
\* itself) and b.use_connect = connect: a bone connected to a parent has
\* its head moved to the parent's tail, whatever head was passed in
add_bone(bones, b) ==
  LET nm == edit_bone_name(bones, b.name)
      made == Append(bones, [name |-> nm, head |-> b.head, tail |-> b.tail,
                             parent |-> "", use_connect |-> FALSE])
  IN IF b.parent = "" THEN [ok |-> TRUE, bones |-> made]
     ELSE IF b.parent \notin BoneNames(made) THEN [ok |-> FALSE, bones |-> made]
     ELSE [ok |-> TRUE,
           bones |-> [made EXCEPT ![Len(made)] =
                        [@ EXCEPT !.parent = IF b.parent = nm THEN "" ELSE b.parent,
                                  !.head = IF b.connect /\ b.parent # nm
                                           THEN bone_tail(made, b.parent) ELSE @,
                                  !.use_connect = b.connect]]]

RECURSIVE add_bones(_, _)
add_bones(acc, todo) ==
  IF todo = << >> \/ ~acc.ok THEN acc
  ELSE add_bones(add_bone(acc.bones, Head(todo)), Tail(todo))

\* a pose bone at rest, as Blender creates it
RestPoseBone == [rotation_mode |-> "QUATERNION", rotation_euler |-> Zero3, location |-> Zero3]

\* create_armature / build_armature: armature_add(enter_editmode=True), the
\* armature datablock and object, the add_bone calls, and mode_set('OBJECT'):
\* on leaving edit mode the edit bones become the bones of the armature, with
\* one pose bone each. A KeyError in add_bone leaves the function before
\* that: the session stays in Edit mode, the armature has its edit bones
\* only, no bone and no pose bone
create_armature(d, sk, r) ==
  LET built == add_bones([ok |-> TRUE, bones |-> << >>], sk.bones)
      dn == UniqueName(sk.data, DOMAIN d.armatures)
      on == UniqueName(sk.obj, DOMAIN d.objects)
      added == [d EXCEPT
                  !.objects = @ @@ (on :> [type |-> "ARMATURE", data |-> dn, parent |-> NoName,
                                           parent_type |-> "OBJECT", parent_bone |-> "",
                                           vertex_groups |-> {}, modifiers |-> {}, born |-> r])]
  IN [ok |-> built.ok,
      obj |-> on,
      d |-> IF built.ok
            THEN [added EXCEPT
                    !.armatures = @ @@ (dn :> [users |-> 1, bones |-> built.bones,
                                               edit_bones |-> << >>, born |-> r]),
                    !.pose = [b \in BoneNames(built.bones) |-> RestPoseBone],
                    !.mode = "OBJECT"]
            ELSE [added EXCEPT
                    !.armatures = @ @@ (dn :> [users |-> 1, bones |-> << >>,
                                               edit_bones |-> built.bones, born |-> r]),
                    !.pose = << >>,
                    !.mode = "EDIT"]]

\* a lookup that only knows the first bone
ArmatureBones_root_only(d, arm) == SubSeq(d.armatures[d.objects[arm].data].bones, 1, 1)

\* armature.data.bones: the bones of the armature object arm
ArmatureBones(d, arm) == d.armatures[d.objects[arm].data].bones

\* ---------------------------------------------------------------- binding
\* a binding that parents the part to the armature object and to no bone
parent_to_bone_object_only(d, obj, arm, bone_name) ==
  IF bone_name \notin BoneNames(ArmatureBones(d, arm))
  THEN [ok |-> FALSE, d |-> [d EXCEPT !.mode = "OBJECT"]]
  ELSE [ok |-> TRUE,
        d |-> [d EXCEPT !.objects[obj] = [@ EXCEPT !.parent = arm, !.parent_type = "OBJECT"],
               !.mode = "OBJECT"]]

\* parent_to_bone(obj, armature, bone_name) of the character generators:
\* armature.data.bones[bone_name] raises KeyError for an absent bone, before
\* bpy.ops.object.parent_set(type='BONE') is reached
parent_to_bone(d, obj, arm, bone_name) ==
  IF bone_name \notin BoneNames(ArmatureBones(d, arm))
  THEN [ok |-> FALSE, d |-> [d EXCEPT !.mode = "OBJECT"]]
  ELSE [ok |-> TRUE,
        d |-> [d EXCEPT !.objects[obj] =
                 [@ EXCEPT !.parent = arm, !.parent_type = "BONE", !.parent_bone = bone_name],
               !.mode = "OBJECT"]]

\* parent_to_bone(arm_obj, bone_name, mesh) of generate_gate.py: object
\* parenting, an Armature modifier and a full-weight vertex group named
\* after the bone; the bone itself is never looked up
parent_to_bone_gate(d, obj, arm, bone_name) ==
  [ok |-> TRUE,
   d |-> [d EXCEPT !.objects[obj] =
            [@ EXCEPT !.parent = arm,
                      !.modifiers = @ \cup {"Armature"},
                      !.vertex_groups = @ \cup {bone_name}]]]

\* which binding routine the generator defines
UsesGateBinding(g) == g = "gate"

Bind(d, g, obj, arm, bone_name) ==
  IF UsesGateBinding(g) THEN parent_to_bone_gate(d, obj, arm, bone_name)
  ELSE parent_to_bone(d, obj, arm, bone_name)

\* the bones whose pose reaches bone n: n and the bones up its parent chain
\* (add_bone: b.parent = eb[parent_name]; a child bone follows its parent)
RECURSIVE bone_and_ancestors(_, _, _)
bone_and_ancestors(bones, n, fuel) ==
  IF fuel = 0 \/ n \notin BoneNames(bones) THEN {}
  ELSE LET b == bones[CHOOSE i \in 1..Len(bones) : bones[i].name = n]
       IN {n} \cup (IF b.parent = "" THEN {}
                    ELSE bone_and_ancestors(bones, b.parent, fuel - 1))

\* the bones of armature arm that carry mesh object obj: the bone it is
\* bone-parented to (parent_set(type='BONE')), and the bones its vertex
\* groups name when it has an Armature modifier (generate_gate.py); a vertex
\* group that names no bone of the armature is followed by nothing
attached_bones(d, obj, arm) ==
  LET ob == d.objects[obj]
      names == BoneNames(ArmatureBones(d, arm))
  IN (IF ob.parent = arm /\ ob.parent_type = "BONE" THEN {ob.parent_bone} \cap names ELSE {})
       \cup (IF "Armature" \in ob.modifiers THEN ob.vertex_groups \cap names ELSE {})

\* whether posing bone bone_name of arm displaces mesh object obj
posing_moves(d, arm, bone_name, obj) ==
  LET bones == ArmatureBones(d, arm)
  IN \E b \in attached_bones(d, obj, arm) :
       bone_name \in bone_and_ancestors(bones, b, Len(bones))

\* ---------------------------------------------------------------- posing
\* math.radians of an angle given in tenths of a degree: the angle in
\* 1/10000 radian (x * pi / 1800, pi = 3.14159), truncated toward zero
radians(x) ==
  IF x >= 0 THEN (x * 314159) \div 18000 ELSE 0 - (((0 - x) * 314159) \div 18000)

\* set_bone_rot that drops the sign of the angles
set_bone_rot_unsigned(p, bone, v) ==
  [p EXCEPT ![bone] = [@ EXCEPT !.rotation_mode = "XYZ",
                                !.rotation_euler = <<radians(IF v[1] < 0 THEN 0 - v[1] ELSE v[1]),
                                                     radians(IF v[2] < 0 THEN 0 - v[2] ELSE v[2]),
                                                     radians(IF v[3] < 0 THEN 0 - v[3] ELSE v[3])>>]]

\* set_bone_rot(pose_bone, x_deg, y_deg, z_deg)
set_bone_rot(p, bone, v) ==
  [p EXCEPT ![bone] = [@ EXCEPT !.rotation_mode = "XYZ",
                                !.rotation_euler = <<radians(v[1]), radians(v[2]), radians(v[3])>>]]

\* set_bone_loc(pose_bone, x, y, z_val)
set_bone_loc(p, bone, v) ==
  [p EXCEPT ![bone] = [@ EXCEPT !.location = v]]

\* reset_pose that only fixes the rotation mode and keeps the values
reset_pose_keep(p) ==
  [b \in DOMAIN p |-> [p[b] EXCEPT !.rotation_mode = "XYZ"]]

\* reset_pose(arm_obj): every pose bone back to rest
reset_pose(p) ==
  [b \in DOMAIN p |-> [rotation_mode |-> "XYZ", rotation_euler |-> Zero3, location |-> Zero3]]

\* a per-bone call that is always taken as an offset
apply_override_as_location(p, o) == set_bone_loc(p, o.bone, o.value)

\* one explicit per-bone call of a keyframe: set_bone_rot or set_bone_loc
apply_override(p, o) ==
  IF o.path = "rotation_euler" THEN set_bone_rot(p, o.bone, o.value)
  ELSE set_bone_loc(p, o.bone, o.value)

\* the explicit per-bone calls of one keyframe, applied in order;
\* pb[name] raises KeyError for a bone the skeleton lacks
RECURSIVE apply_overrides(_, _)
apply_overrides(acc, ovs) ==
  IF ovs = << >> \/ ~acc.ok THEN acc
  ELSE LET o == Head(ovs)
       IN IF o.bone \notin DOMAIN acc.pose
          THEN [ok |-> FALSE, pose |-> acc.pose]
          ELSE apply_overrides([ok |-> TRUE, pose |-> apply_override(acc.pose, o)], Tail(ovs))

\* the interpolation Blender gives a newly inserted key
DefaultInterpolation == "BEZIER"

\* key_all_bones that keys only the channels that are away from rest
key_all_bones_posed(fcurves, p, frame) ==
  LET moved == {c \in {<<b, path>> : b \in DOMAIN p, path \in {"rotation_euler", "location"}} :
                  (IF c[2] = "rotation_euler" THEN p[c[1]].rotation_euler ELSE p[c[1]].location) # Zero3}
  IN [c \in DOMAIN fcurves \cup moved |->
        IF c \in moved
        THEN LET point == [co |-> IF c[2] = "rotation_euler" THEN p[c[1]].rotation_euler
                                  ELSE p[c[1]].location,
                           interpolation |-> DefaultInterpolation]
             IN IF c \in DOMAIN fcurves
                THEN [f \in DOMAIN fcurves[c] \cup {frame} |->
                        IF f = frame THEN point ELSE fcurves[c][f]]
                ELSE [f \in {frame} |-> point]
        ELSE fcurves[c]]

\* key_all_bones(arm_obj, frame): keyframe_insert of rotation_euler and
\* location for every pose bone; the keys go to the F-curves of the action
\* (one curve per bone and data path; a point holds the three components)
key_all_bones(fcurves, p, frame) ==
  [c \in DOMAIN fcurves \cup {<<b, path>> : b \in DOMAIN p, path \in {"rotation_euler", "location"}} |->
     IF c[1] \in DOMAIN p
     THEN LET point == [co |-> IF c[2] = "rotation_euler" THEN p[c[1]].rotation_euler
                               ELSE p[c[1]].location,
                        interpolation |-> DefaultInterpolation]
          IN IF c \in DOMAIN fcurves
             THEN [f \in DOMAIN fcurves[c] \cup {frame} |->
                     IF f = frame THEN point ELSE fcurves[c][f]]
             ELSE [f \in {frame} |-> point]
     ELSE fcurves[c]]

\* a pass that only visits the rotation curves
set_interpolation_rotation_only(fcurves, mode) ==
  [c \in DOMAIN fcurves |->
     [f \in DOMAIN fcurves[c] |->
        IF c[2] = "rotation_euler" THEN [fcurves[c][f] EXCEPT !.interpolation = mode]
        ELSE fcurves[c][f]]]

\* for fc in action.fcurves: for kp in fc.keyframe_points: kp.interpolation = mode
set_interpolation(fcurves, mode) ==
  [c \in DOMAIN fcurves |->
     [f \in DOMAIN fcurves[c] |-> [fcurves[c][f] EXCEPT !.interpolation = mode]]]

\* frames at which the action has keys
KeyFrames(a) == UNION {DOMAIN a.fcurves[c] : c \in DOMAIN a.fcurves}

\* action.frame_range[0]
Min(S) == CHOOSE x \in S : \A y \in S : x <= y
frame_start(a) == IF KeyFrames(a) = {} THEN 0 ELSE Min(KeyFrames(a))

\* anim_data.action = a (None = NoName): the old action loses a user, the new gains one
assign_action(d, a) ==
  LET old == d.animation_data.action
  IN [d EXCEPT
        !.animation_data = [@ EXCEPT !.action = a],
        !.actions = [x \in DOMAIN d.actions |->
           [d.actions[x] EXCEPT !.users = @ - (IF x = old /\ old # NoName THEN 1 ELSE 0)
                                            + (IF x = a /\ a # NoName THEN 1 ELSE 0)]]]

\* a frame change that moves the playhead and leaves the pose alone
frame_set_playhead_only(d, f) ==
  IF f = 0 THEN d ELSE [d EXCEPT !.scene = [@ EXCEPT !.frame = f]]

\* bpy.context.scene.frame_set(f): the pose follows the active action where
\* it has keys at f (f = 0: no frame_set call)
frame_set(d, f) ==
  LET a == d.animation_data.action
  IN IF f = 0 THEN d
     ELSE IF a = NoName \/ a \notin DOMAIN d.actions THEN [d EXCEPT !.scene = [@ EXCEPT !.frame = f]]
     ELSE [d EXCEPT
             !.scene = [@ EXCEPT !.frame = f],
             !.pose = [b \in DOMAIN d.pose |->
                [d.pose[b] EXCEPT
                   !.rotation_euler =
                      IF <<b, "rotation_euler">> \in DOMAIN d.actions[a].fcurves
                         /\ f \in DOMAIN d.actions[a].fcurves[<<b, "rotation_euler">>]
                      THEN d.actions[a].fcurves[<<b, "rotation_euler">>][f].co ELSE @,
                   !.location =
                      IF <<b, "location">> \in DOMAIN d.actions[a].fcurves
                         /\ f \in DOMAIN d.actions[a].fcurves[<<b, "location">>]
                      THEN d.actions[a].fcurves[<<b, "location">>][f].co ELSE @]]]

\* anim_data.action = a; bpy.context.scene.frame_set(f): the pose the
\* skeleton shows when clip a is sampled at frame f
sample_pose(d, a, f) == frame_set(assign_action(d, a), f).pose

\* ---------------------------------------------------------------- the stand-alone tools, idle
\* read_pose.py not run
NoCapture ==
  [active |-> "NONE", armature_exists |-> FALSE, bones |-> << >>, pose |-> << >>,
   ran |-> FALSE, error |-> FALSE, lines |-> << >>]

\* the render settings, the playhead and the output folder of a scene that
\* render_animation_frames.py has not touched (Blender's defaults)
UntouchedScene ==
  [resolution_x |-> 1920, resolution_y |-> 1080, resolution_percentage |-> 100,
   file_format |-> "PNG", engine |-> "BLENDER_EEVEE_NEXT", filepath |-> "/tmp/",
   frame_current |-> 1, output_dir_made |-> FALSE]

\* no clip chosen: the (None, None, None) of get_active_animation_name
NoAnimation == [name |-> NoName, start |-> 0, end |-> 0]

\* render_animation_frames.py not run, in a session without a skeleton
NoRender ==
  [armature |-> FALSE, tracks |-> << >>, action |-> [name |-> NoName, frame_range |-> <<0, 0>>],
   scene |-> UntouchedScene, chosen |-> NoAnimation, frames |-> << >>,
   files |-> {}, printed |-> << >>, ran |-> FALSE]

\* export_<generator>.py not run
NoExport == [written |-> FALSE, objects |-> {}, actions |-> {}]

\* ---------------------------------------------------------------- the session
EmptySession ==
  [objects |-> << >>, meshes |-> << >>, materials |-> << >>, armatures |-> << >>,
   actions |-> << >>, lights |-> << >>, cameras |-> << >>,
   pose |-> << >>, animation_data |-> NoAnimData, mode |-> "OBJECT",
   scene |-> [camera |-> NoName, frame |-> 1]]

\* what a run leaves behind, as far as the next run is compared with it
BoneCount(d) ==
  LET RECURSIVE Sum(_)
      Sum(S) == IF S = {} THEN 0
                ELSE LET a == CHOOSE x \in S : TRUE
                     IN Len(d.armatures[a].bones) + Sum(S \ {a})
  IN Sum(DOMAIN d.armatures)

PartCount(d) == Cardinality({o \in DOMAIN d.objects : d.objects[o].type = "MESH"})

\* the names present in the session, by collection
Names(d) ==
  [objects |-> DOMAIN d.objects, meshes |-> DOMAIN d.meshes, materials |-> DOMAIN d.materials,
   armatures |-> DOMAIN d.armatures, actions |-> DOMAIN d.actions,
   lights |-> DOMAIN d.lights, cameras |-> DOMAIN d.cameras]

\* the clips kept by their retained flag (use_fake_user)
Retained(d) == {a \in DOMAIN d.actions : d.actions[a].use_fake_user}

Summary ==
  [gen |-> gen, complete |-> stage = "done", miskeyed |-> miskeyed,
   bones |-> BoneCount(bpy), parts |-> PartCount(bpy),
   materials |-> Cardinality(DOMAIN bpy.materials),
   retained |-> Cardinality(Retained(bpy)),
   names |-> Names(bpy)]

\* the summary kept when there is nothing to compare the next run with
NoSummary ==
  [gen |-> "", complete |-> FALSE, miskeyed |-> 0, bones |-> 0, parts |-> 0,
   materials |-> 0, retained |-> 0, names |-> Names(EmptySession)]

\* what is remembered of the session when generator g is started with input
\* m: the full summary when the run repeats the previous one (same generator,
\* same input), otherwise only how the previous run ended and the clips it kept
Remembered(g, m) ==
  IF g = gen /\ m = miskeyed THEN Summary
  ELSE [NoSummary EXCEPT !.complete = Summary.complete, !.retained = Summary.retained]

Init ==
  /\ bpy = EmptySession
  /\ run = 0
  /\ gen = ""
  /\ stage = "idle"
  /\ idx = 1
  /\ clip = 1
  /\ miskeyed = 0
  /\ MAT = << >>
  /\ groups = << >>
  /\ arm_obj = NoName
  /\ clip_actions = << >>
  /\ binds = << >>
  /\ prev = NoSummary
  /\ err = ""
  /\ fbx = NoExport
  /\ capture = NoCapture
  /\ render = NoRender

HasSkeleton(g) == Skeleton(g).bones # << >>

\* main(): clear_scene() -- a script is started in the session as the previous
\* run (finished or ended by an exception) left it, with fresh globals; the
\* RuntimeError of a refused operator ends main() with the session untouched
ClearScene(g, m) ==
  /\ stage \in {"idle", "done", "aborted", "exported"}
  /\ run < MaxRuns
  /\ m \in 0..MaxMiskeyed
  /\ m <= Len(Parts(g))
  /\ m > 0 => HasSkeleton(g)
  /\ prev' = Remembered(g, m)
  /\ LET res == clear_scene(bpy)
     IN /\ bpy' = res.d
        /\ stage' = IF res.ok THEN "materials" ELSE "aborted"
        /\ err' = IF res.ok THEN "" ELSE "RuntimeError"
  /\ run' = run + 1
  /\ gen' = g
  /\ miskeyed' = m
  /\ idx' = 1 /\ clip' = 1
  /\ MAT' = << >> /\ groups' = << >> /\ arm_obj' = NoName
  /\ clip_actions' = << >> /\ binds' = << >>
  /\ fbx' = NoExport
  /\ UNCHANGED <<capture, render>>

\* main(): create_materials()
CreateMaterials ==
  /\ stage = "materials"
  /\ bpy' = make_materials(bpy, MaterialNames(gen), run)
  /\ MAT' = material_globals(bpy, MaterialNames(gen), run)
  /\ stage' = "parts"
  /\ idx' = 1
  /\ UNCHANGED <<fbx, capture, render, run, gen, clip, miskeyed, groups, arm_obj, clip_actions, binds, prev, err>>

\* the stage that follows body-part assembly
AfterParts(g) == IF HasSkeleton(g) THEN "armature" ELSE "preview"

\* a main() that goes on to the skeleton as soon as one part exists
after_assemble_first_only(i, n, g) == AfterParts(g)

\* where main() stands after the i-th of n body parts: build_body_parts
\* returns (and main goes on) only when every part is assembled
after_assemble(i, n, g) == IF i = n THEN AfterParts(g) ELSE "parts"

\* build_body_parts(): one body part -- primitives, join, groups[bone] = part
Assemble ==
  /\ stage = "parts"
  /\ idx <= Len(Parts(gen))
  /\ LET part == Parts(gen)[idx]
         key == IF idx = miskeyed THEN NoSuchBone ELSE part.bone
     IN /\ bpy' = assemble(bpy, part, MAT, run)
        /\ groups' = IF HasSkeleton(gen)
                     THEN Append(groups, [bone |-> key, obj |-> part_object(bpy, part)])
                     ELSE groups
  /\ idx' = IF idx = Len(Parts(gen)) THEN 1 ELSE idx + 1
  /\ stage' = after_assemble(idx, Len(Parts(gen)), gen)
  /\ UNCHANGED <<fbx, capture, render, run, gen, clip, miskeyed, MAT, arm_obj, clip_actions, binds, prev, err>>

\* main(): arm_obj = create_armature()
CreateArmature ==
  /\ stage = "armature"
  /\ LET res == create_armature(bpy, Skeleton(gen), run)
     IN /\ bpy' = res.d
        /\ arm_obj' = IF res.ok THEN res.obj ELSE NoName
        /\ stage' = IF res.ok THEN "bind" ELSE "aborted"
        /\ err' = IF res.ok THEN "" ELSE "KeyError"
  /\ idx' = 1
  /\ UNCHANGED <<fbx, capture, render, run, gen, clip, miskeyed, MAT, groups, clip_actions, binds, prev>>

\* the stage that follows binding
AfterBind(g) == IF Clips(g) # << >> THEN "pose" ELSE "preview"

\* a rig_model loop that swallows the exception and carries on
after_bind_call_swallowing(ok, last, g) ==
  IF last THEN AfterBind(g) ELSE "bind"

\* where main() stands after one parent_to_bone call of rig_model: an
\* exception propagates out of rig_model and main (nothing catches it)
after_bind_call(ok, last, g) ==
  IF ~ok THEN "aborted" ELSE IF last THEN AfterBind(g) ELSE "bind"

\* rig_model(): one iteration -- parent_to_bone(mesh_obj, arm_obj, bone_name);
\* an exception leaves main()
ParentToBone ==
  /\ stage = "bind"
  /\ idx <= Len(groups)
  /\ LET res == Bind(bpy, gen, groups[idx].obj, arm_obj, groups[idx].bone)
     IN /\ bpy' = res.d
        /\ binds' = Append(binds, [bone |-> groups[idx].bone, ok |-> res.ok])
        /\ stage' = after_bind_call(res.ok, idx = Len(groups), gen)
        /\ err' = IF res.ok THEN "" ELSE "KeyError"
        /\ idx' = IF idx < Len(groups) THEN idx + 1 ELSE 1
  /\ UNCHANGED <<fbx, capture, render, run, gen, clip, miskeyed, MAT, groups, arm_obj, clip_actions, prev>>

\* main(): bpy.ops.object.mode_set(mode='POSE')
EnterPoseMode ==
  /\ stage = "pose"
  /\ bpy' = [bpy EXCEPT !.mode = "POSE"]
  /\ stage' = "anim"
  /\ clip' = 1
  /\ UNCHANGED <<fbx, capture, render, run, gen, idx, miskeyed, MAT, groups, arm_obj, clip_actions, binds, prev, err>>

\* the keyframes of a clip in order, each: reset_pose(arm_obj); the
\* set_bone_rot / set_bone_loc calls; key_all_bones(arm_obj, frame).
\* acc = [ok, pose, fcurves]; a pb[name] lookup of an absent bone raises KeyError
RECURSIVE bake_keyframes(_, _)
bake_keyframes(acc, kfs) ==
  IF kfs = << >> \/ ~acc.ok THEN acc
  ELSE LET k == Head(kfs)
           posed == apply_overrides([ok |-> TRUE, pose |-> reset_pose(acc.pose)], k.overrides)
       IN bake_keyframes(
            [ok |-> posed.ok, pose |-> posed.pose,
             fcurves |-> IF posed.ok THEN key_all_bones(acc.fcurves, posed.pose, k.frame)
                         ELSE acc.fcurves],
            Tail(kfs))

\* a clip function that leaves an already active clip active
author_clip_keeping_active(d, c, r) ==
  LET nm == UniqueName(c.name, DOMAIN d.actions)
      d1 == [d EXCEPT
               !.actions = @ @@ (nm :> [users |-> 0, use_fake_user |-> FALSE,
                                        fcurves |-> << >>, born |-> r]),
               !.animation_data = IF c.creates_animation_data
                                  THEN [@ EXCEPT !.exists = TRUE] ELSE @]
      d2 == IF d1.animation_data.action = NoName THEN assign_action(d1, nm) ELSE d1
      \* keyframe_insert writes to the action that is active on the armature
      keyed == d2.animation_data.action
      baked == bake_keyframes([ok |-> TRUE, pose |-> d2.pose, fcurves |-> d2.actions[keyed].fcurves],
                              c.keyframes)
  IN IF ~d1.animation_data.exists
     THEN [ok |-> FALSE, err |-> "AttributeError", action |-> nm, d |-> d1]
     ELSE IF ~baked.ok
     THEN [ok |-> FALSE, err |-> "KeyError", action |-> nm,
           d |-> [d2 EXCEPT !.pose = baked.pose, !.actions[keyed].fcurves = baked.fcurves]]
     ELSE [ok |-> TRUE, err |-> "", action |-> nm,
           d |-> LET d3 == [d2 EXCEPT !.pose = baked.pose, !.actions[keyed].fcurves = baked.fcurves]
                 IN [d3 EXCEPT !.actions[nm] =
                       [@ EXCEPT !.fcurves = set_interpolation(d3.actions[nm].fcurves, c.interpolation),
                                 !.use_fake_user = TRUE,
                                 !.users = @ + 1]]]

\* create_walk_cycle / create_attack_anim / create_die_anim:
\* action = bpy.data.actions.new(name); [arm_obj.animation_data_create();]
\* arm_obj.animation_data.action = action (AttributeError without animation
\* data); the keyframes; every key gets the clip's interpolation;
\* action.use_fake_user = True (the fake user counts as a user)
author_clip(d, c, r) ==
  LET nm == UniqueName(c.name, DOMAIN d.actions)
      d1 == [d EXCEPT
               !.actions = @ @@ (nm :> [users |-> 0, use_fake_user |-> FALSE,
                                        fcurves |-> << >>, born |-> r]),
               !.animation_data = IF c.creates_animation_data
                                  THEN [@ EXCEPT !.exists = TRUE] ELSE @]
      d2 == assign_action(d1, nm)
      \* keyframe_insert writes to the action that is active on the armature
      keyed == d2.animation_data.action
      baked == bake_keyframes([ok |-> TRUE, pose |-> d2.pose, fcurves |-> d2.actions[keyed].fcurves],
                              c.keyframes)
  IN IF ~d1.animation_data.exists
     THEN [ok |-> FALSE, err |-> "AttributeError", action |-> nm, d |-> d1]
     ELSE IF ~baked.ok
     THEN [ok |-> FALSE, err |-> "KeyError", action |-> nm,
           d |-> [d2 EXCEPT !.pose = baked.pose, !.actions[keyed].fcurves = baked.fcurves]]
     ELSE [ok |-> TRUE, err |-> "", action |-> nm,
           d |-> LET d3 == [d2 EXCEPT !.pose = baked.pose, !.actions[keyed].fcurves = baked.fcurves]
                 IN [d3 EXCEPT !.actions[nm] =
                       [@ EXCEPT !.fcurves = set_interpolation(d3.actions[nm].fcurves, c.interpolation),
                                 !.use_fake_user = TRUE,
                                 !.users = @ + 1]]]

\* main(): walk_action = create_walk_cycle(arm_obj), attack_action = ...,
\* die_action = ... -- one clip per step
AuthorClip ==
  /\ stage = "anim"
  /\ clip <= Len(Clips(gen))
  /\ LET res == author_clip(bpy, Clips(gen)[clip], run)
     IN /\ bpy' = res.d
        /\ err' = res.err
        /\ clip_actions' = IF res.ok THEN Append(clip_actions, res.action) ELSE clip_actions
        /\ stage' = IF ~res.ok THEN "aborted"
                    ELSE IF clip = Len(Clips(gen)) THEN "tracks" ELSE "anim"
        /\ clip' = IF res.ok /\ clip < Len(Clips(gen)) THEN clip + 1 ELSE 1
        /\ idx' = IF Main(gen).clear_active THEN 0 ELSE 1
  /\ UNCHANGED <<fbx, capture, render, run, gen, miskeyed, MAT, groups, arm_obj, binds, prev>>

\* main() of generate_basic_orc.py / generate_bow_orc.py: anim_data.action = None
\* before the tracks are made
ClearActive ==
  /\ stage = "tracks"
  /\ idx = 0
  /\ bpy' = assign_action(bpy, NoName)
  /\ idx' = 1
  /\ UNCHANGED <<fbx, capture, render, run, gen, stage, clip, miskeyed, MAT, groups, arm_obj, clip_actions, binds, prev, err>>

\* a track that stacks a strip for every action of the session
track_strips_stacked(d, a) ==
  LET RECURSIVE Strips(_)
      Strips(S) == IF S = {} THEN << >>
                   ELSE LET x == CHOOSE y \in S : TRUE
                        IN <<[name |-> x, action |-> x, frame_start |-> frame_start(d.actions[x])]>>
                           \o Strips(S \ {x})
  IN Strips(DOMAIN d.actions)

\* track.strips.new(action.name, int(action.frame_range[0]), action);
\* strip.name = action.name: the strips of the new track
track_strips(d, a) ==
  <<[name |-> a, action |-> a, frame_start |-> frame_start(d.actions[a])]>>

\* a track left unmuted
new_track_unmuted(d, a) ==
  [d EXCEPT
     !.animation_data.nla_tracks = Append(@,
        [name |-> a, mute |-> FALSE, strips |-> track_strips(d, a)]),
     !.actions[a] = [@ EXCEPT !.users = @ + 1]]

\* main(), body of "for action in [walk_action, attack_action, die_action]":
\* a new track named after the action, one strip holding it, track.mute = True
new_track(d, a) ==
  [d EXCEPT
     !.animation_data.nla_tracks = Append(@,
        [name |-> a, mute |-> TRUE, strips |-> track_strips(d, a)]),
     !.actions[a] = [@ EXCEPT !.users = @ + 1]]

PackageTrack ==
  /\ stage = "tracks"
  /\ idx >= 1
  /\ idx <= Len(clip_actions)
  /\ bpy' = new_track(bpy, clip_actions[idx])
  /\ idx' = idx + 1
  /\ UNCHANGED <<fbx, capture, render, run, gen, stage, clip, miskeyed, MAT, groups, arm_obj, clip_actions, binds, prev, err>>

\* the action variable main() names (walk_action, attack_action, die_action)
ActionVar(name) ==
  IF name = "" THEN NoName
  ELSE clip_actions[CHOOSE i \in 1..Len(clip_actions) : Clips(gen)[i].name = name]

\* main(), after the loop: [anim_data.action = <preview clip>; frame_set(f);]
\* bpy.ops.object.mode_set(mode='OBJECT')
LeavePreview ==
  /\ stage = "tracks"
  /\ idx = Len(clip_actions) + 1
  /\ LET m == Main(gen)
         d1 == IF m.preview = "" THEN bpy ELSE assign_action(bpy, ActionVar(m.preview))
         d2 == frame_set(d1, m.preview_frame)
     IN bpy' = [d2 EXCEPT !.mode = "OBJECT"]
  /\ stage' = "preview"
  /\ idx' = 1
  /\ UNCHANGED <<fbx, capture, render, run, gen, clip, miskeyed, MAT, groups, arm_obj, clip_actions, binds, prev, err>>

\* bpy.ops.object.light_add / camera_add: a new datablock and the object using it
add_data_object(d, coll, type, data_name, obj_name, r) ==
  LET dn == UniqueName(data_name, DOMAIN d[coll])
      on == UniqueName(obj_name, DOMAIN d.objects)
  IN [d EXCEPT
        ![coll] = @ @@ (dn :> [users |-> 1, born |-> r]),
        !.objects = @ @@ (on :> [type |-> type, data |-> dn, parent |-> NoName,
                                 parent_type |-> "OBJECT", parent_bone |-> "",
                                 vertex_groups |-> {}, modifiers |-> {}, born |-> r])]

\* main(), preview set-up: KeyLight, FillLight, the camera (made the scene
\* camera); the character generators that leave a clip for hand-posing then
\* re-enter Pose mode [and make that clip active at its frame]
PreviewSetup ==
  /\ stage = "preview"
  /\ LET m == Main(gen)
         d1 == add_data_object(bpy, "lights", "LIGHT", "Sun", "KeyLight", run)
         d2 == add_data_object(d1, "lights", "LIGHT", "Area", "FillLight", run)
         d3 == add_data_object(d2, "cameras", "CAMERA", "Camera", m.camera, run)
         d4 == [d3 EXCEPT !.scene = [@ EXCEPT !.camera = UniqueName(m.camera, DOMAIN d2.objects)]]
         d5 == IF m.repose THEN [d4 EXCEPT !.mode = "POSE"] ELSE d4
         d6 == IF m.final = "" THEN d5 ELSE assign_action(d5, ActionVar(m.final))
     IN bpy' = frame_set(d6, m.final_frame)
  /\ stage' = "done"
  /\ UNCHANGED <<fbx, capture, render, run, gen, idx, clip, miskeyed, MAT, groups, arm_obj, clip_actions, binds, prev, err>>

\* ---------------------------------------------------------------- export
\* bpy.ops.object.delete() on the selected objects S, run in Object mode
\* (in any other mode the operator is refused and nothing is deleted): they
\* leave the session, their datablocks lose a user each, a deleted scene
\* camera is unset
delete_objects(d, S) ==
  LET gone == Restrict(d.objects, S)
  IN IF ~object_operators_poll(d) THEN d
     ELSE
     [d EXCEPT
        !.objects = Restrict(d.objects, DOMAIN d.objects \ S),
        !.meshes = [m \in DOMAIN d.meshes |->
                      [d.meshes[m] EXCEPT !.users = @ - ObjectUsers(gone, "MESH", m)]],
        !.lights = [l \in DOMAIN d.lights |->
                      [d.lights[l] EXCEPT !.users = @ - ObjectUsers(gone, "LIGHT", l)]],
        !.cameras = [c \in DOMAIN d.cameras |->
                      [d.cameras[c] EXCEPT !.users = @ - ObjectUsers(gone, "CAMERA", c)]],
        !.scene = [@ EXCEPT !.camera = IF @ \in S THEN NoName ELSE @]]

\* "Remove cameras and lights": to_remove, select, bpy.ops.object.delete()
remove_preview_objects(d) ==
  delete_objects(d, {o \in DOMAIN d.objects : d.objects[o].type \in {"CAMERA", "LIGHT"}})

\* a selection that takes the meshes only, whatever types are asked for
export_selection_meshes_only(d, types) == {o \in DOMAIN d.objects : d.objects[o].type = "MESH"}

\* select_all(action='DESELECT'); for obj in bpy.data.objects:
\* if obj.type in types: obj.select_set(True)
export_selection(d, types) == {o \in DOMAIN d.objects : d.objects[o].type \in types}

\* a track removal that takes the clips of the removed strips with it
remove_tracks_with_clips(d) ==
  IF ~d.animation_data.exists THEN d
  ELSE [d EXCEPT
          !.animation_data = [@ EXCEPT !.nla_tracks = << >>],
          !.actions = Restrict(d.actions,
             {a \in DOMAIN d.actions :
                AnimUsers([d.animation_data EXCEPT !.action = NoName], a) = 0})]

\* for every armature with animation data: tracks.remove(track) for all its
\* tracks; the strips go with them and release the actions they held
remove_tracks(d) ==
  IF ~d.animation_data.exists THEN d
  ELSE [d EXCEPT
          !.animation_data = [@ EXCEPT !.nla_tracks = << >>],
          !.actions = [a \in DOMAIN d.actions |->
             [d.actions[a] EXCEPT
                !.users = @ - AnimUsers([d.animation_data EXCEPT !.action = NoName], a)]]]

\* obj.animation_data.action = None, for every armature with animation data
clear_active_action(d) ==
  IF ~d.animation_data.exists THEN d ELSE assign_action(d, NoName)

\* the generators that come with an export script
Exported == {"ballista", "gate", "goblin_cannoneer", "tower", "treasure"}

\* export_<g>.py: the object types it selects and passes as object_types,
\* whether it clears the active action, whether it removes the tracks,
\* whether it bakes all actions
ExportScript(g) ==
  CASE g = "goblin_cannoneer" ->
         [types |-> {"ARMATURE", "MESH"}, clears_action |-> TRUE, removes_tracks |-> TRUE,
          bake_all_actions |-> TRUE]
    [] g = "gate" ->
         [types |-> {"ARMATURE", "MESH"}, clears_action |-> FALSE, removes_tracks |-> TRUE,
          bake_all_actions |-> FALSE]
    [] OTHER ->
         [types |-> {"MESH"}, clears_action |-> FALSE, removes_tracks |-> FALSE,
          bake_all_actions |-> FALSE]

\* clean_and_export(): the session it leaves and the file it writes
\* (use_selection=True: the selected objects of the listed object_types;
\* bake_anim_use_all_actions: every action of the session)
clean_and_export(d, s) ==
  LET d1 == remove_preview_objects(d)
      selected == export_selection(d1, s.types)
      d2 == IF s.clears_action THEN clear_active_action(d1) ELSE d1
      d3 == IF s.removes_tracks THEN remove_tracks(d2) ELSE d2
  IN IF ~object_operators_poll(d)
     THEN [ok |-> FALSE, d |-> d, fbx |-> NoExport]
     ELSE [ok |-> TRUE, d |-> d3,
           fbx |-> [written |-> TRUE,
                    objects |-> {o \in selected : d3.objects[o].type \in s.types},
                    actions |-> IF s.bake_all_actions THEN DOMAIN d3.actions ELSE {}]]

\* export_<gen>.py run after the generator has finished, in the session as
\* it is then: its first operator call raises RuntimeError, before anything
\* is removed or written, when that session is not in Object mode
Export ==
  /\ stage = "done"
  /\ gen \in Exported
  /\ LET res == clean_and_export(bpy, ExportScript(gen))
     IN /\ bpy' = res.d
        /\ fbx' = res.fbx
        /\ err' = IF res.ok THEN "" ELSE "RuntimeError"
  /\ stage' = "exported"
  /\ UNCHANGED <<capture, render, run, gen, idx, clip, miskeyed, MAT, groups, arm_obj,
                 clip_actions, binds, prev>>

\* between two scripts, with the session left in Pose mode (the generators
\* that end with mode_set(mode='POSE')): the person running the scripts goes
\* back to Object mode in the interface. No script does this; the pose, the
\* animation data and everything else stay as they are
LeavePoseMode ==
  /\ stage \in {"done", "aborted", "exported"}
  /\ bpy.mode = "POSE"
  /\ bpy' = [bpy EXCEPT !.mode = "OBJECT"]
  /\ UNCHANGED <<stage, fbx, capture, render, run, gen, idx, clip, miskeyed, MAT, groups,
                 arm_obj, clip_actions, binds, prev, err>>

Next ==
  \/ \E g \in Generators, m \in 0..MaxMiskeyed : ClearScene(g, m)
  \/ CreateMaterials
  \/ Assemble
  \/ CreateArmature
  \/ ParentToBone
  \/ EnterPoseMode
  \/ AuthorClip
  \/ ClearActive
  \/ PackageTrack
  \/ LeavePreview
  \/ PreviewSetup
  \/ Export
  \/ LeavePoseMode

Spec == Init /\ [][Next]_vars

\* ---------------------------------------------------------------- read_pose.py
\* ROT_THRESHOLD = 0.5 (degrees), here in 1/1000 degree
ROT_THRESHOLD == 500
\* A pose bone holds its location as 32-bit floats, and pb.location.x reads
\* the held float back. Locations are counted here in units of 2^-33, the
\* step between neighbouring 32-bit floats from 2^-10 (0.0009765625) up to
\* 2^-9, where the threshold lies: there every held value is a whole number
\* of units.
\* LOC_THRESHOLD = 0.001 (units) is 8589934.592 of these units: a whole
\* number of units is > 0.001 exactly when it is > 8589934
LOC_THRESHOLD == 8589934

\* math.degrees of an angle in 1/10000 radian: the angle in 1/1000 degree
\* (x * 180 / pi, pi = 3.14159), truncated toward zero; for |x| <= 1000
degrees(x) ==
  IF x >= 0 THEN (x * 1800000) \div 314159 ELSE 0 - (((0 - x) * 1800000) \div 314159)

abs(x) == IF x < 0 THEN 0 - x ELSE x

\* the 32-bit float a pose bone holds for a location of k/10000, in units of
\* 2^-33 (one ten-thousandth is 858993.4592 units): the nearest float, whose
\* neighbours are 1 unit apart below 2^-9, 2 units below 2^-8, 4 units
\* below 2^-7 (ties to the even one); under 2^-10, where floats lie closer
\* than one unit, the nearest whole unit. For |k| <= 78
float32(k) ==
  LET m == abs(k)
      whole == m * 858993 + (m * 4592) \div 10000
      frac == (m * 4592) % 10000
      step == IF whole < 16777216 THEN 1 ELSE IF whole < 33554432 THEN 2 ELSE 4
      q == whole \div step
      over == (whole % step) * 10000 + frac
      up == \/ 2 * over > step * 10000
            \/ 2 * over = step * 10000 /\ q % 2 = 1
      held == (IF up THEN q + 1 ELSE q) * step
  IN IF k < 0 THEN 0 - held ELSE held

\* a rotation test that looks at the X angle only
has_rot_x_only(pb) == abs(degrees(pb.rotation_euler[1])) > ROT_THRESHOLD

\* has_rot = abs(rx) > ROT_THRESHOLD or abs(ry) > ... or abs(rz) > ...
has_rot(pb) ==
  \/ abs(degrees(pb.rotation_euler[1])) > ROT_THRESHOLD
  \/ abs(degrees(pb.rotation_euler[2])) > ROT_THRESHOLD
  \/ abs(degrees(pb.rotation_euler[3])) > ROT_THRESHOLD

\* has_loc = abs(lx) > LOC_THRESHOLD or abs(ly) > ... or abs(lz) > ...
has_loc(pb) ==
  \/ abs(pb.location[1]) > LOC_THRESHOLD
  \/ abs(pb.location[2]) > LOC_THRESHOLD
  \/ abs(pb.location[3]) > LOC_THRESHOLD

\* f"{rx:.1f}": an angle in 1/1000 degree printed in tenths of a degree
format_1f(md) ==
  IF md >= 0 THEN (md + 50) \div 100 ELSE 0 - ((50 - md) \div 100)

\* f"{lx:.4f}": a held location (units of 2^-33) printed in ten-thousandths,
\* the n nearest to it: |l - n * 858993.4592| <= 429496.7296, compared in
\* 1/1000 unit
format_4f(l) ==
  LET m == abs(l)
      near == m \div 858993
      n == CHOOSE c \in {near - 1, near, near + 1} :
             /\ c >= 0
             /\ abs((m - c * 858993) * 1000 - (c * 4592) \div 10) <= 429496729
  IN IF l < 0 THEN 0 - n ELSE n

\* the lines read_current_pose prints for one pose bone: the bone's name when
\* it is reported, then its set_bone_rot and set_bone_loc code lines
bone_lines(name, pb) ==
  (IF has_rot(pb) \/ has_loc(pb) THEN <<[line |-> "name", bone |-> name, value |-> Zero3]>>
   ELSE << >>)
  \o (IF has_rot(pb)
      THEN <<[line |-> "set_bone_rot", bone |-> name,
              value |-> <<format_1f(degrees(pb.rotation_euler[1])),
                          format_1f(degrees(pb.rotation_euler[2])),
                          format_1f(degrees(pb.rotation_euler[3]))>>]>>
      ELSE << >>)
  \o (IF has_loc(pb)
      THEN <<[line |-> "set_bone_loc", bone |-> name, value |-> <<format_4f(pb.location[1]), format_4f(pb.location[2]),
                          format_4f(pb.location[3])>>]>>
      ELSE << >>)

\* for pb in arm_obj.pose.bones: ... -- the printed lines, bone after bone
RECURSIVE pose_lines(_, _)
pose_lines(bones, pose) ==
  IF bones = << >> THEN << >>
  ELSE bone_lines(Head(bones), pose[Head(bones)]) \o pose_lines(Tail(bones), pose)

\* arm_obj = bpy.context.active_object, else the first armature of
\* bpy.data.objects: whether read_current_pose finds an armature
finds_armature(c) == c.active = "ARMATURE" \/ c.armature_exists

\* read_current_pose(): "ERROR: No armature found!" and return, or the report
read_current_pose(c) ==
  IF ~finds_armature(c) THEN [c EXCEPT !.ran = TRUE, !.error = TRUE]
  ELSE [c EXCEPT !.ran = TRUE, !.lines = pose_lines(c.bones, c.pose)]

\* the bones of the hand-posed skeleton, in pose-bone order
CaptureBones == <<"Root", "Spine">>

\* hand-posed angles (1/10000 radian; 87 is just under and 88 just over half
\* a degree) and offsets as the pose bone holds them (units of 2^-33): the
\* floats held for -0.001, 0, 0.001 and 0.002, and 8589934, the float next
\* below the one held for 0.001
HandAngles == {-88, 0, 87, 88}
HandOffsets == {float32(-10), float32(0), float32(10), float32(20)} \cup {8589934}

\* the poses a bone is left in by hand
HandPoses ==
  [rotation_euler : HandAngles \X {0} \X HandAngles, location : {0} \X HandOffsets \X {0}]
    \cup [rotation_euler : {0} \X HandAngles \X {0}, location : HandOffsets \X {0} \X HandOffsets]

\* the poses tried for the second bone
SpinePoses ==
  {p \in HandPoses : p.rotation_euler[3] = 0 /\ p.location[1] = 0 /\ p.location[3] = 0}

\* a session in which somebody has posed a skeleton by hand
InitCapture ==
  /\ bpy = EmptySession /\ run = 0 /\ gen = "" /\ stage = "idle" /\ idx = 1 /\ clip = 1
  /\ miskeyed = 0 /\ MAT = << >> /\ groups = << >> /\ arm_obj = NoName
  /\ clip_actions = << >> /\ binds = << >> /\ prev = NoSummary /\ err = ""
  /\ fbx = NoExport /\ render = NoRender
  /\ \E act \in {"ARMATURE", "MESH", "NONE"}, ex \in BOOLEAN,
        root \in HandPoses, spine \in SpinePoses :
       /\ act = "ARMATURE" => ex
       /\ capture = [active |-> act, armature_exists |-> ex, bones |-> CaptureBones,
                     pose |-> [b \in {"Root", "Spine"} |-> IF b = "Root" THEN root ELSE spine],
                     ran |-> FALSE, error |-> FALSE, lines |-> << >>]

\* running read_pose.py
ReadCurrentPose ==
  /\ ~capture.ran
  /\ capture' = read_current_pose(capture)
  /\ UNCHANGED <<bpy, run, gen, stage, idx, clip, miskeyed, MAT, groups, arm_obj,
                 clip_actions, binds, prev, err, fbx, render>>

NextCapture == ReadCurrentPose

SpecCapture == InitCapture /\ [][NextCapture]_vars


\* ------------------------------------------- render_animation_frames.py
\* Frame positions of strips and actions are floats; the model counts them in
\* tenths of a frame. A track holds action strips (strips.new always takes an
\* action) and may hold none; Blender keeps at most one track soloed.

\* FRAME_STEP = 5: render every N frames
FRAME_STEP == 5
RESOLUTION_X == 960
RESOLUTION_Y == 540

\* int(x) of a float given in tenths: truncation toward zero
int(x) == IF x >= 0 THEN x \div 10 ELSE -((-x) \div 10)

\* str.lower() on the clip names of the scenes explored
lower(b) ==
  CASE b = "Walk" -> "walk"
    [] b = "Attack" -> "attack"
    [] b = "Die" -> "die"
    [] b = "Idle" -> "idle"
    [] OTHER -> b

\* anim_name.lower().replace(" ", "_").replace(".", "_"): the dot of a .00k
\* suffix becomes an underscore
safe_name(a) == [b |-> lower(a.b), sep |-> IF a.n = 0 THEN "" ELSE "_", n |-> a.n]

\* for track in anim_data.nla_tracks: if <wanted>: for strip in track.strips:
\* return ... -- the first strip of the first wanted track that holds one
\* (a wanted track without strips is passed over); << >> if there is none
RECURSIVE first_strip(_, _)
first_strip(tracks, solo) ==
  IF tracks = << >> THEN << >>
  ELSE LET t == Head(tracks)
           wanted == IF solo THEN t.is_solo ELSE ~t.mute
       IN IF wanted /\ t.strips # << >> THEN <<Head(t.strips)>>
          ELSE first_strip(Tail(tracks), solo)

\* return strip.action.name, int(strip.frame_start), int(strip.frame_end)
strip_animation(strip) ==
  [name |-> strip.action, start |-> int(strip.frame_start), end |-> int(strip.frame_end)]

\* return action.name, int(action.frame_range[0]), int(action.frame_range[1])
action_animation(action) ==
  [name |-> action.name, start |-> int(action.frame_range[1]), end |-> int(action.frame_range[2])]

\* a detection that looks at the active action before the soloed track
get_active_animation_name_action_first(r) ==
  LET soloed == first_strip(r.tracks, TRUE)
      unmuted == first_strip(r.tracks, FALSE)
  IN IF ~r.armature THEN NoAnimation
     ELSE IF r.action.name # NoName THEN action_animation(r.action)
     ELSE IF soloed # << >> THEN strip_animation(soloed[1])
     ELSE IF unmuted # << >> THEN strip_animation(unmuted[1])
     ELSE NoAnimation

\* get_active_animation_name(): the first armature with animation data; its
\* soloed track's strip first, then its active action, then the strip of its
\* first unmuted track; (None, None, None) after an ERROR print otherwise
get_active_animation_name(r) ==
  LET soloed == first_strip(r.tracks, TRUE)
      unmuted == first_strip(r.tracks, FALSE)
  IN IF ~r.armature THEN NoAnimation
     ELSE IF soloed # << >> THEN strip_animation(soloed[1])
     ELSE IF r.action.name # NoName THEN action_animation(r.action)
     ELSE IF unmuted # << >> THEN strip_animation(unmuted[1])
     ELSE NoAnimation

\* range(start, stop, step) for a positive step
range(start, stop, step) ==
  LET n == IF stop > start THEN (stop - start + step - 1) \div step ELSE 0
  IN [i \in 1..n |-> start + (i - 1) * step]

\* a frame list that is only the stepped range
frames_to_render_steps_only(f_start, f_end) ==
  range(f_start, f_end + 1, FRAME_STEP)

\* frames = list(range(frame_start, frame_end + 1, FRAME_STEP));
\* if frames[-1] != frame_end: frames.append(frame_end)
\* (frames[-1] of an empty list is an IndexError: no list at all)
frames_to_render(f_start, f_end) ==
  LET frames == range(f_start, f_end + 1, FRAME_STEP)
  IN IF frames = << >> THEN << >>
     ELSE IF frames[Len(frames)] # f_end THEN Append(frames, f_end)
     ELSE frames

\* the file written for a frame: orc_{safe_name}_frame_{frame:02d}.png
frame_file(anim_name, frame) == [name |-> safe_name(anim_name), frame |-> frame]

\* render_frames(): nothing but the ERROR print when no animation is found;
\* otherwise the output folder, the render settings, and for every frame of
\* the list frame_set, the file path and a still render
render_frames(r) ==
  LET chosen == get_active_animation_name(r)
      frames == frames_to_render(chosen.start, chosen.end)
      configured == [r.scene EXCEPT
                       !.output_dir_made = TRUE,
                       !.resolution_x = RESOLUTION_X,
                       !.resolution_y = RESOLUTION_Y,
                       !.resolution_percentage = 100,
                       !.file_format = "PNG",
                       !.engine = "BLENDER_EEVEE_NEXT"]
  IN IF chosen.name = NoName
     THEN [r EXCEPT !.ran = TRUE, !.printed = <<"ERROR">>]
     ELSE IF frames = << >>
     THEN [r EXCEPT !.ran = TRUE, !.chosen = chosen, !.scene = configured,
                    !.printed = <<"IndexError">>]
     ELSE [r EXCEPT
             !.ran = TRUE,
             !.chosen = chosen,
             !.frames = frames,
             !.scene = [configured EXCEPT
                          !.frame_current = frames[Len(frames)],
                          !.filepath = frame_file(chosen.name, frames[Len(frames)])],
             !.files = {frame_file(chosen.name, frames[i]) : i \in 1..Len(frames)},
             !.printed = <<"Rendering", "Done">>]

\* the most tracks a scene tried by the renderer has
MaxTracks == 2

\* the clip the strip of the i-th track holds
TrackClips == <<"Walk", "Attack", "Die">>

\* the strips tried on a track (tenths of a frame): none, 1.0-30.0,
\* -3.5-6.4
TrackStrips(i) ==
  {<< >>}
    \cup {<<[action |-> [b |-> TrackClips[i], n |-> 0], frame_start |-> r[1], frame_end |-> r[2]]>> :
            r \in {<<10, 300>>, <<-35, 64>>}}

\* the tracks tried
RenderTracks(i) ==
  [is_solo : BOOLEAN, mute : BOOLEAN, strips : TrackStrips(i)]

\* the track lists tried: up to MaxTracks tracks, at most one of them soloed
RECURSIVE TrackLists(_)
TrackLists(n) ==
  IF n = 0 THEN {<< >>}
  ELSE TrackLists(n - 1)
         \cup {Append(ts, t) : ts \in {x \in TrackLists(n - 1) : Len(x) = n - 1},
                               t \in RenderTracks(((n - 1) % Len(TrackClips)) + 1)}

\* the frame ranges tried for the active action (tenths of a frame): from
\* -3.5, 0.0 and 1.0, over 0.3 to 11.3 frames
ActionRanges ==
  {<<s, s + 10 * k + 3>> : s \in {-35, 0, 10}, k \in 0..11}

\* the active actions tried: none, or Idle / Idle.001 over one of the ranges
ActiveActions ==
  {[name |-> NoName, frame_range |-> <<0, 0>>]}
    \cup {[name |-> [b |-> "Idle", n |-> k], frame_range |-> r] :
            k \in {0, 1}, r \in ActionRanges}

\* a session somebody has set up for a preview
InitRender ==
  /\ bpy = EmptySession /\ run = 0 /\ gen = "" /\ stage = "idle" /\ idx = 1 /\ clip = 1
  /\ miskeyed = 0 /\ MAT = << >> /\ groups = << >> /\ arm_obj = NoName
  /\ clip_actions = << >> /\ binds = << >> /\ prev = NoSummary /\ err = ""
  /\ fbx = NoExport /\ capture = NoCapture
  /\ \E arm \in BOOLEAN, ts \in TrackLists(MaxTracks), act \in ActiveActions :
       /\ Cardinality({i \in 1..Len(ts) : ts[i].is_solo}) <= 1
       /\ ~arm => ts = << >> /\ act.name = NoName
       /\ render = [NoRender EXCEPT !.armature = arm, !.tracks = ts, !.action = act]

\* running render_animation_frames.py
RenderFrames ==
  /\ ~render.ran
  /\ render' = render_frames(render)
  /\ UNCHANGED <<bpy, run, gen, stage, idx, clip, miskeyed, MAT, groups, arm_obj,
                 clip_actions, binds, prev, err, fbx, capture>>

NextRender == RenderFrames

SpecRender == InitRender /\ [][NextRender]_vars
\* ---------------------------------------------------------------- properties
\* C1 -- idempotence: when a generator is run twice in a row in one session
\* (each run a Reset followed by a full generation, same inputs), the session
\* after the second run holds as many bones, body parts and material names as
\* after the first, the same names (nothing suffix-renamed) and no datablock
\* left over from the first run.
C1_SecondRunSameAsFirst ==
  (stage = "done" /\ miskeyed = 0 /\ prev.complete /\ prev.gen = gen /\ prev.miskeyed = 0) =>
    /\ BoneCount(bpy) = prev.bones
    /\ PartCount(bpy) = prev.parts
    /\ Cardinality(DOMAIN bpy.materials) = prev.materials
    /\ Names(bpy) = prev.names
    /\ \A coll \in {"objects", "meshes", "materials", "armatures", "actions", "lights", "cameras"} :
         \A x \in DOMAIN bpy[coll] : bpy[coll][x].born = run

\* C2 -- reset-then-override: in every clip, a keyframe that has no override
\* for a channel of a bone is baked with that channel at rest, whatever an
\* earlier keyframe of the clip set it to.
C2_UnmentionedBonesBakedAtRest ==
  \A ci \in 1..Len(clip_actions) :
    LET c == Clips(gen)[ci]
        fc == bpy.actions[clip_actions[ci]].fcurves
    IN \A j \in 1..Len(c.keyframes) :
         \A b \in DOMAIN bpy.pose, path \in {"rotation_euler", "location"} :
           (\A i \in 1..Len(c.keyframes[j].overrides) :
               ~(c.keyframes[j].overrides[i].bone = b /\ c.keyframes[j].overrides[i].path = path))
           => fc[<<b, path>>][c.keyframes[j].frame].co = Zero3

C2_Witness ==
  \E ci \in 1..Len(clip_actions) :
     LET c == Clips(gen)[ci]
         fc == bpy.actions[clip_actions[ci]].fcurves
     IN \E j1 \in 1..Len(c.keyframes), j2 \in 1..Len(c.keyframes) :
          /\ j1 < j2
          /\ \E i \in 1..Len(c.keyframes[j1].overrides) :
               LET o == c.keyframes[j1].overrides[i]
               IN /\ o.path = "rotation_euler"
                  /\ fc[<<o.bone, o.path>>][c.keyframes[j1].frame].co # Zero3
                  /\ \A k \in 1..Len(c.keyframes[j2].overrides) :
                       c.keyframes[j2].overrides[k].bone # o.bone
                  /\ fc[<<o.bone, o.path>>][c.keyframes[j2].frame].co = Zero3

\* C3 -- loop closure: when a Walk clip has been authored, the channels
\* overridden at its first keyframe and their values are exactly those
\* overridden at its last keyframe.
C3_WalkFirstEqualsLast ==
  LET Effective(k) ==
        [ch \in {<<k.overrides[i].bone, k.overrides[i].path>> : i \in 1..Len(k.overrides)} |->
           LET last == CHOOSE i \in 1..Len(k.overrides) :
                         /\ <<k.overrides[i].bone, k.overrides[i].path>> = ch
                         /\ \A j \in (i + 1)..Len(k.overrides) :
                              <<k.overrides[j].bone, k.overrides[j].path>> # ch
           IN k.overrides[last].value]
  IN \A ci \in 1..Len(clip_actions) :
       Clips(gen)[ci].name = "Walk" =>
         Effective(Clips(gen)[ci].keyframes[1])
           = Effective(Clips(gen)[ci].keyframes[Len(Clips(gen)[ci].keyframes)])

\* C4 -- every Bind whose bone name is absent from the skeleton fails, in
\* every generator (the gate included).
C4_BindToAbsentBoneFails ==
  \A i \in 1..Len(binds) :
    binds[i].bone \notin BoneNames(ArmatureBones(bpy, arm_obj)) => ~binds[i].ok

\* C5 -- with the body parts grouped as the generator authors them, every
\* part's bone key names a bone of the skeleton the generator built, every
\* Bind succeeds and the run is not aborted in binding (a run ends early
\* only when its Reset is refused, before any Bind).
C5_EveryBindingNamesABone ==
  miskeyed = 0 =>
    /\ stage = "aborted" => err = "RuntimeError" /\ binds = << >>
    /\ \A i \in 1..Len(binds) :
         binds[i].ok /\ binds[i].bone \in BoneNames(ArmatureBones(bpy, arm_obj))
    /\ (HasSkeleton(gen) /\ stage \in {"pose", "anim", "tracks", "preview", "done"})
         => Len(binds) = Len(Parts(gen))

C5_Witness ==
  /\ miskeyed = 0
  /\ stage = "done"
  /\ Len(binds) = Len(Parts(gen))
  /\ Len(binds) >= 10
  /\ \A i \in 1..Len(binds) : binds[i].ok

\* C6 -- tree invariant: in every skeleton of the session, following parent
\* links from any bone reaches a parentless root within 4 steps (so no
\* parent chain runs into a cycle).
C6_ParentChainReachesRoot ==
  \A a \in DOMAIN bpy.armatures :
    LET bones == bpy.armatures[a].bones
        Bone(n) == bones[CHOOSE i \in 1..Len(bones) : bones[i].name = n]
        RECURSIVE RootWithin(_, _)
        RootWithin(n, k) ==
          IF n \notin BoneNames(bones) THEN FALSE
          ELSE IF Bone(n).parent = "" THEN TRUE
          ELSE IF k = 0 THEN FALSE
          ELSE RootWithin(Bone(n).parent, k - 1)
    IN \A i \in 1..Len(bones) : RootWithin(bones[i].name, 4)

C6_Witness ==
  \E a \in DOMAIN bpy.armatures :
    LET bones == bpy.armatures[a].bones
        Parent(n) == bones[CHOOSE i \in 1..Len(bones) : bones[i].name = n].parent
    IN \E i \in 1..Len(bones) :
         /\ bones[i].parent # ""
         /\ Parent(bones[i].parent) # ""
         /\ Parent(Parent(bones[i].parent)) # ""
         /\ Parent(Parent(Parent(bones[i].parent))) # ""
         /\ Parent(Parent(Parent(Parent(bones[i].parent)))) = ""

\* C7 -- every bone added with connect=True has its authored head at its
\* parent's authored tail (coordinates compared in 1/100 unit): read on the
\* add_bone calls of the skeleton just built, since the armature holds the
\* head of a connected bone at the parent's tail whatever was authored.
C7_ConnectedHeadAtParentTail ==
  (arm_obj # NoName) =>
    LET authored == Skeleton(gen).bones
    IN \A i \in 1..Len(authored), j \in 1..Len(authored) :
         (authored[i].connect /\ authored[j].name = authored[i].parent)
           => authored[i].head = authored[j].tail

\* C8 -- Reset removes every clip: right after clear_scene the session holds
\* no action, whether or not a previous run set use_fake_user on it.
C8_ResetRemovesAllClips ==
  stage = "materials" => DOMAIN bpy.actions = {}

C8_Witness ==
  /\ stage = "materials"
  /\ prev.complete
  /\ prev.retained = 3
  /\ DOMAIN bpy.actions = {}

\* C9 -- right after Reset nothing of an earlier run remains: no object and
\* no mesh, armature, material, action, light or camera datablock.
C9_ResetRetiresPriorState ==
  stage = "materials" => Names(bpy) = Names(EmptySession)

\* C10 -- a failed Bind aborts the run: it is the last Bind of the run, the
\* run stops there, no clip is authored and no track is packaged in it.
C10_FailedBindAbortsRun ==
  \A i \in 1..Len(binds) :
    ~binds[i].ok =>
      /\ i = Len(binds)
      /\ stage = "aborted"
      /\ clip_actions = << >>
      /\ DOMAIN bpy.actions = {}
      /\ bpy.animation_data.nla_tracks = << >>

C10_Witness ==
  /\ Len(binds) = 2
  /\ binds[1].ok
  /\ ~binds[2].ok
  /\ stage = "aborted"
  /\ Len(groups) > 2
  /\ Clips(gen) # << >>

\* the values the set_bone_rot / set_bone_loc calls of keyframe k give the
\* channel (bone, path), in call order (empty: the keyframe does not set it)
Overrides(k, bone, path) ==
  LET hits == SelectSeq(k.overrides, LAMBDA o : o.bone = bone /\ o.path = path)
  IN [i \in 1..Len(hits) |-> hits[i].value]

\* the left and right upper-leg bones of the skeletons (per actor in the
\* two-goblin cannoneer skeleton)
UpperLegPairs ==
  { <<"L_UpperLeg", "R_UpperLeg">>,
    <<"A_L_UpperLeg", "A_R_UpperLeg">>,
    <<"B_L_UpperLeg", "B_R_UpperLeg">> }

\* C11 (as stated) -- mirror consistency: in every authored clip, a keyframe
\* that sets a left upper leg to rotation (rx,0,0) has the right upper leg
\* baked at (-rx,0,0).
C11_UpperLegsNegatedInEveryClip ==
  \A ci \in 1..Len(clip_actions) :
    LET c == Clips(gen)[ci]
        fc == bpy.actions[clip_actions[ci]].fcurves
    IN \A j \in 1..Len(c.keyframes), p \in UpperLegPairs :
         LET ov == Overrides(c.keyframes[j], p[1], "rotation_euler")
             v == ov[Len(ov)]
         IN (ov # << >> /\ v[2] = 0 /\ v[3] = 0)
              => fc[<<p[2], "rotation_euler">>][c.keyframes[j].frame].co
                   = <<0 - radians(v[1]), 0, 0>>

\* C11 (amended) -- in a Walk clip a keyframe that sets a left upper leg to
\* (rx,0,0) has the right upper leg baked at (-rx,0,0); in the Attack and Die
\* clips such a keyframe has the right upper leg baked at the same (rx,0,0).
C11_UpperLegsNegatedInWalkEqualElsewhere ==
  \A ci \in 1..Len(clip_actions) :
    LET c == Clips(gen)[ci]
        fc == bpy.actions[clip_actions[ci]].fcurves
    IN \A j \in 1..Len(c.keyframes), p \in UpperLegPairs :
         LET ov == Overrides(c.keyframes[j], p[1], "rotation_euler")
             v == ov[Len(ov)]
         IN (ov # << >> /\ v[2] = 0 /\ v[3] = 0)
              => fc[<<p[2], "rotation_euler">>][c.keyframes[j].frame].co
                   = IF c.name = "Walk" THEN <<0 - radians(v[1]), 0, 0>>
                     ELSE <<radians(v[1]), 0, 0>>

C11_Witness ==
  /\ Len(clip_actions) = 3
  /\ \A name \in {"Walk", "Die"} :
       \E ci \in 1..3 :
         /\ Clips(gen)[ci].name = name
         /\ \E j \in 1..Len(Clips(gen)[ci].keyframes) :
              LET k == Clips(gen)[ci].keyframes[j]
                  ov == Overrides(k, "L_UpperLeg", "rotation_euler")
              IN /\ ov # << >>
                 /\ ov[Len(ov)][1] # 0 /\ ov[Len(ov)][2] = 0 /\ ov[Len(ov)][3] = 0
                 /\ bpy.actions[clip_actions[ci]].fcurves[<<"R_UpperLeg", "rotation_euler">>][k.frame].co
                      # Zero3

\* C12 -- every track is muted, and once packaging is over at most one clip
\* is active: the skeleton's active action is none or one authored clip.
C12_TracksMutedOnePreview ==
  /\ \A i \in 1..Len(bpy.animation_data.nla_tracks) : bpy.animation_data.nla_tracks[i].mute
  /\ stage \in {"preview", "done"} =>
       \/ bpy.animation_data.action = NoName
       \/ Cardinality({i \in 1..Len(clip_actions) :
                         clip_actions[i] = bpy.animation_data.action}) = 1

C12_Witness ==
  /\ stage = "done"
  /\ Len(bpy.animation_data.nla_tracks) = 3
  /\ \A i \in 1..3 : bpy.animation_data.nla_tracks[i].mute
  /\ bpy.animation_data.action # NoName

\* C13 -- after packaging, clips and tracks correspond one to one: every
\* track holds exactly one strip, every authored clip is the action of the
\* strip of exactly one track, and there are as many tracks as clips.
C13_ClipsAndTracksOneToOne ==
  (stage \in {"preview", "done"} /\ Clips(gen) # << >>) =>
    LET tracks == bpy.animation_data.nla_tracks
    IN /\ Len(tracks) = Cardinality(DOMAIN bpy.actions)
       /\ \A i \in 1..Len(tracks) : Len(tracks[i].strips) = 1
       /\ \A a \in DOMAIN bpy.actions :
            Cardinality({i \in 1..Len(tracks) :
                           \E j \in 1..Len(tracks[i].strips) : tracks[i].strips[j].action = a}) = 1

C13_Witness ==
  /\ stage = "preview"
  /\ Cardinality(DOMAIN bpy.actions) = 3
  /\ Len(bpy.animation_data.nla_tracks) = 3
  /\ \A i \in 1..3 : bpy.animation_data.nla_tracks[i].strips[1].action = clip_actions[i]

\* C14 -- every key of every channel of an authored clip has the clip's
\* interpolation mode: LINEAR in Walk, BEZIER in Attack and Die.
C14_InterpolationUniformPerClip ==
  \A ci \in 1..Len(clip_actions) :
    LET c == Clips(gen)[ci]
        fc == bpy.actions[clip_actions[ci]].fcurves
    IN /\ c.interpolation = IF c.name = "Walk" THEN "LINEAR" ELSE "BEZIER"
       /\ \A ch \in DOMAIN fc : \A f \in DOMAIN fc[ch] :
            fc[ch][f].interpolation = c.interpolation

C14_Witness ==
  /\ Len(clip_actions) = 3
  /\ Clips(gen)[1].name = "Walk"
  /\ bpy.actions[clip_actions[1]].fcurves[<<"Root", "location">>][7].interpolation = "LINEAR"
  /\ bpy.actions[clip_actions[1]].fcurves[<<"Root", "rotation_euler">>][25].interpolation = "LINEAR"
  /\ Clips(gen)[3].name = "Die"
  /\ bpy.actions[clip_actions[3]].fcurves[<<"Root", "location">>][30].interpolation = "BEZIER"

\* C15 -- an authored clip has one rotation and one location channel for
\* every bone of the skeleton, and every channel has its keys at exactly the
\* frames of the clip's keyframes.
C15_EveryChannelKeyedAtEveryKeyframe ==
  \A ci \in 1..Len(clip_actions) :
    LET c == Clips(gen)[ci]
        fc == bpy.actions[clip_actions[ci]].fcurves
        frames == {c.keyframes[j].frame : j \in 1..Len(c.keyframes)}
    IN /\ DOMAIN fc = BoneNames(ArmatureBones(bpy, arm_obj)) \X {"rotation_euler", "location"}
       /\ \A ch \in DOMAIN fc : DOMAIN fc[ch] = frames

C15_Witness ==
  /\ Len(clip_actions) = 3
  /\ Cardinality(DOMAIN bpy.actions[clip_actions[3]].fcurves) >= 22
  /\ \A ch \in DOMAIN bpy.actions[clip_actions[3]].fcurves :
       DOMAIN bpy.actions[clip_actions[3]].fcurves[ch] = {1, 6, 12, 20, 30}

\* C16 -- stage order: within a run a stage has begun only if the stage
\* before it is complete.  Materials are created only after Reset has emptied
\* the scene; a body part exists only once every material is defined; a
\* skeleton exists only once every body part is assembled; a Bind has been
\* made only with the complete skeleton; a clip exists only once every part
\* is bound; a track exists only once every clip is authored.  (A run whose
\* Reset is refused executes no stage at all and leaves the session of the
\* run before it.)
C16_StagesInOrder ==
  LET mesh_objects == {o \in DOMAIN bpy.objects : bpy.objects[o].type = "MESH"}
      skeletons == {a \in DOMAIN bpy.armatures : bpy.armatures[a].born = run}
      clips == {a \in DOMAIN bpy.actions : bpy.actions[a].born = run}
  IN ~(stage = "aborted" /\ err = "RuntimeError") =>
     /\ (\E m \in DOMAIN bpy.materials : bpy.materials[m].born = run)
          => \A o \in DOMAIN bpy.objects : bpy.objects[o].born = run
     /\ mesh_objects # {}
          => DOMAIN MAT = {MaterialNames(gen)[i] : i \in 1..Len(MaterialNames(gen))}
     /\ skeletons # {} => Cardinality(mesh_objects) = Len(Parts(gen))
     /\ stage = "parts" => skeletons = {} /\ arm_obj = NoName
     /\ binds # << >>
          => /\ skeletons # {}
             /\ Len(ArmatureBones(bpy, arm_obj)) = Len(Skeleton(gen).bones)
     /\ clips # {} => Len(binds) = Len(Parts(gen))
     /\ bpy.animation_data.nla_tracks # << >> => Len(clip_actions) = Len(Clips(gen))

C16_Witness ==
  /\ stage = "done"
  /\ Len(MaterialNames(gen)) > 1
  /\ Len(Parts(gen)) >= 10
  /\ Len(binds) = Len(Parts(gen))
  /\ Len(Skeleton(gen).bones) > 10
  /\ Len(clip_actions) = 3
  /\ Len(bpy.animation_data.nla_tracks) = 3

\* C17 -- after binding (every Bind of the run has returned normally), every
\* body part bound to a bone of the skeleton is carried by exactly one bone,
\* and posing a bone displaces the part if and only if that bone is the one
\* the part was bound to or a bone up its parent chain (the part's bone is
\* the posed bone or one of its descendants).
C17_BoundPartFollowsExactlyItsBone ==
  (HasSkeleton(gen) /\ stage \in {"pose", "anim", "tracks", "preview", "done"}) =>
    \A i \in 1..Len(groups) :
      LET bones == ArmatureBones(bpy, arm_obj)
      IN groups[i].bone \in BoneNames(bones) =>
           /\ Cardinality(attached_bones(bpy, groups[i].obj, arm_obj)) = 1
           /\ \A b \in BoneNames(bones) :
                posing_moves(bpy, arm_obj, b, groups[i].obj)
                  <=> b \in bone_and_ancestors(bones, groups[i].bone, Len(bones))

\* binding is over with the bone keys as authored, and some part sits on a
\* bone below the root: posing its own bone or the root moves it, posing
\* some other bone does not
C17_Witness ==
  /\ HasSkeleton(gen) /\ stage = "pose" /\ miskeyed = 0
  /\ Len(groups) > 1
  /\ \E i \in 1..Len(groups) :
       LET bones == ArmatureBones(bpy, arm_obj)
       IN /\ attached_bones(bpy, groups[i].obj, arm_obj) = {groups[i].bone}
          /\ \E up \in BoneNames(bones) :
               up # groups[i].bone /\ posing_moves(bpy, arm_obj, up, groups[i].obj)
          /\ posing_moves(bpy, arm_obj, groups[i].bone, groups[i].obj)
          /\ \E other \in BoneNames(bones) : ~posing_moves(bpy, arm_obj, other, groups[i].obj)

\* C18 -- Assemble consumes its primitives: during assembly the mesh objects
\* of the workspace are exactly the body parts assembled so far (one object
\* per part, no primitive left beside them), and once every part of the
\* asset is assembled the number of mesh objects equals the number of body
\* parts (in every later stage, and in a run ended by a failed Bind or clip).
C18_MeshObjectsAreTheBodyParts ==
  LET mesh_objects == {o \in DOMAIN bpy.objects : bpy.objects[o].type = "MESH"}
  IN /\ stage = "parts"
          => /\ Cardinality(mesh_objects) = idx - 1
             /\ mesh_objects = {groups[i].obj : i \in 1..Len(groups)}
     /\ (\/ stage \in {"armature", "bind", "pose", "anim", "tracks", "preview", "done"}
         \/ stage = "aborted" /\ err # "RuntimeError")
          => Cardinality(mesh_objects) = Len(Parts(gen))

\* a character whose ten or more parts are all assembled, the merged-away
\* primitives' meshes being left without an object
C18_Witness ==
  /\ stage = "armature"
  /\ Len(Parts(gen)) >= 10
  /\ Cardinality({o \in DOMAIN bpy.objects : bpy.objects[o].type = "MESH"}) = Len(Parts(gen))
  /\ Cardinality({m \in DOMAIN bpy.meshes : bpy.meshes[m].users = 0}) >= 18

\* C19 -- within every skeleton of the workspace no two bones share a name,
\* and every bone of the skeleton just built carries the name it was added
\* under (none was renamed to avoid a clash).  In the cannoneer skeleton
\* every per-actor bone exists once under the prefix A_ and once under B_,
\* Root is the only parentless bone, and both actors' roots hang from it.
C19_BoneNamesUnique ==
  /\ \A a \in DOMAIN bpy.armatures :
       LET bones == bpy.armatures[a].bones
       IN \A i, j \in 1..Len(bones) : bones[i].name = bones[j].name => i = j
  /\ arm_obj # NoName =>
       LET bones == ArmatureBones(bpy, arm_obj)
           Bone(n) == bones[CHOOSE i \in 1..Len(bones) : bones[i].name = n]
       IN /\ Len(bones) = Len(Skeleton(gen).bones)
          /\ \A i \in 1..Len(bones) : bones[i].name = Skeleton(gen).bones[i].name
          /\ gen = "goblin_cannoneer" =>
               /\ \A i \in 1..Len(goblin_bones) :
                    /\ ("A_" \o goblin_bones[i].name) \in BoneNames(bones)
                    /\ ("B_" \o goblin_bones[i].name) \in BoneNames(bones)
               /\ {b \in BoneNames(bones) : Bone(b).parent = ""} = {"Root"}
               /\ Bone("A_Root").parent = "Root"
               /\ Bone("B_Root").parent = "Root"

C19_Witness ==
  /\ gen = "goblin_cannoneer"
  /\ stage = "done"
  /\ Len(ArmatureBones(bpy, arm_obj)) = 4 + 2 * Len(goblin_bones)
  /\ Len(goblin_bones) = 11

\* C20 -- in every state of a session of consecutive runs, of the same or of
\* different generators, the clip names are unique and unsuffixed: every clip
\* is named exactly Walk, Attack or Die (never Walk.001), no two clips share
\* a base name, the clips of a finished animated asset are exactly those
\* three, and every track and its strip carry the exact name of the clip the
\* strip holds.
C20_ClipNamesUniqueUnsuffixed ==
  LET tracks == bpy.animation_data.nla_tracks
  IN /\ \A a \in DOMAIN bpy.actions : a.n = 0 /\ a.b \in {"Walk", "Attack", "Die"}
     /\ \A a1, a2 \in DOMAIN bpy.actions : a1.b = a2.b => a1 = a2
     /\ (stage \in {"tracks", "preview", "done"} /\ Clips(gen) # << >>)
          => /\ {a.b : a \in DOMAIN bpy.actions} = {"Walk", "Attack", "Die"}
             /\ \A i \in 1..Len(clip_actions) :
                  clip_actions[i] = [b |-> Clips(gen)[i].name, n |-> 0]
     /\ \A i \in 1..Len(tracks) :
          /\ tracks[i].name \in DOMAIN bpy.actions
          /\ tracks[i].name.n = 0
          /\ \A j \in 1..Len(tracks[i].strips) :
               /\ tracks[i].strips[j].action = tracks[i].name
               /\ tracks[i].strips[j].name = tracks[i].name

\* a second run finished with its three clips and tracks, started in a
\* session where the previous run had left three retained clips
C20_Witness ==
  /\ run = 2
  /\ prev.retained = 3
  /\ stage = "done"
  /\ Len(clip_actions) = 3
  /\ Len(bpy.animation_data.nla_tracks) = 3
  /\ Cardinality(DOMAIN bpy.actions) = 3

\* C21 -- sampling an authored clip at the frame of any of its keyframes
\* (making the clip active and setting the frame) shows, for every bone, the
\* pose recorded at that keyframe: the rotation and the translation the
\* keyframe sets for the bone, and rest for what it does not set.
C21_SampleAtKeyframeReturnsRecordedPose ==
  \A ci \in 1..Len(clip_actions) :
    LET c == Clips(gen)[ci]
    IN \A j \in 1..Len(c.keyframes) :
         LET k == c.keyframes[j]
             shown == sample_pose(bpy, clip_actions[ci], k.frame)
         IN \A b \in BoneNames(ArmatureBones(bpy, arm_obj)) :
              LET rot == Overrides(k, b, "rotation_euler")
                  loc == Overrides(k, b, "location")
              IN /\ shown[b].rotation_euler =
                      IF rot = << >> THEN Zero3
                      ELSE <<radians(rot[Len(rot)][1]), radians(rot[Len(rot)][2]),
                             radians(rot[Len(rot)][3])>>
                 /\ shown[b].location = IF loc = << >> THEN Zero3 ELSE loc[Len(loc)]

\* a finished asset with a clip in which Spine is at rest at one keyframe and
\* rotated about X only at another, and sampling shows both
C21_Witness ==
  /\ stage = "done"
  /\ Len(clip_actions) = 3
  /\ \E ci \in 1..3 :
       \E j1, j2 \in 1..Len(Clips(gen)[ci].keyframes) :
         LET k1 == Clips(gen)[ci].keyframes[j1]
             k2 == Clips(gen)[ci].keyframes[j2]
             r2 == sample_pose(bpy, clip_actions[ci], k2.frame)["Spine"].rotation_euler
         IN /\ k1.frame < k2.frame
            /\ Overrides(k1, "Spine", "rotation_euler") = << >>
            /\ sample_pose(bpy, clip_actions[ci], k1.frame)["Spine"].rotation_euler = Zero3
            /\ r2[1] # 0 /\ r2[2] = 0 /\ r2[3] = 0

\* C22 -- the capture step reports a bone if and only if one of its rotation
\* angles is more than 0.5 degree away from rest or one of its translation
\* components, as the pose bone holds it, is more than 0.001 unit away from
\* rest; it prints a rotation for exactly the bones beyond the rotation
\* threshold and a translation for exactly those beyond the translation
\* threshold.
C22_ReportedIffBeyondThreshold ==
  (capture.ran /\ ~capture.error) =>
    \A i \in 1..Len(capture.bones) :
      LET b == capture.bones[i]
          r == capture.pose[b].rotation_euler
          l == capture.pose[b].location
          \* |angle| / 10000 rad * 180 / 3.14159 > 0.5 degree
          rot_beyond == \E k \in 1..3 : (IF r[k] < 0 THEN 0 - r[k] ELSE r[k]) * 3600 > 314159
          \* |offset| / 2^33 > 1/1000, that is |offset| * 25 > 2^33 / 40 = 214748364.8
          loc_beyond == \E k \in 1..3 : l[k] * 25 > 214748364 \/ l[k] * 25 < -214748364
          printed(kind) == \E j \in 1..Len(capture.lines) :
                              capture.lines[j].bone = b /\ capture.lines[j].line = kind
      IN /\ printed("name") <=> (rot_beyond \/ loc_beyond)
         /\ printed("set_bone_rot") <=> rot_beyond
         /\ printed("set_bone_loc") <=> loc_beyond

\* Root stays unreported with an angle just under half a degree and the
\* offset next below the one held for 0.001; Spine, at rest but for an offset
\* of 0.001 as the pose bone holds it (8589935 units, a little over 0.001),
\* is reported with a translation printed as 0.0010
C22_Witness ==
  /\ capture.ran /\ ~capture.error
  /\ capture.pose["Root"].rotation_euler = <<87, 0, 0>>
  /\ capture.pose["Root"].location = <<0, 8589934, 0>>
  /\ capture.pose["Spine"].rotation_euler = Zero3
  /\ capture.pose["Spine"].location = <<0, float32(10), 0>>
  /\ float32(10) = 8589935
  /\ \A j \in 1..Len(capture.lines) : capture.lines[j].bone # "Root"
  /\ \E j \in 1..Len(capture.lines) :
       /\ capture.lines[j].bone = "Spine"
       /\ capture.lines[j].line = "set_bone_loc"
       /\ capture.lines[j].value = <<0, 10, 0>>

\* C23 -- when an export script has run after its generator, the selection
\* it exported contains the asset's skeleton (when the asset has one) and
\* every bound body-part mesh, and contains no camera and no light; no camera
\* or light object is left in the scene either.
C23_ExportSelectsSkeletonAndParts ==
  fbx.written =>
    /\ HasSkeleton(gen) => arm_obj \in fbx.objects
    /\ \A i \in 1..Len(groups) : groups[i].obj \in fbx.objects
    /\ \A o \in fbx.objects : o \in DOMAIN bpy.objects
                              /\ bpy.objects[o].type \notin {"CAMERA", "LIGHT"}
    /\ Cardinality({o \in fbx.objects : bpy.objects[o].type = "MESH"}) = Len(Parts(gen))
    /\ \A o \in DOMAIN bpy.objects : bpy.objects[o].type \notin {"CAMERA", "LIGHT"}

\* the gate exported: its armature and its three bound parts, the two
\* lights and the camera of the preview gone
C23_Witness ==
  /\ stage = "exported"
  /\ gen = "gate"
  /\ fbx.written
  /\ arm_obj \in fbx.objects
  /\ Cardinality(fbx.objects) = 1 + Len(groups)
  /\ Len(groups) = 3
  /\ Cardinality(DOMAIN bpy.lights) >= 2 /\ Cardinality(DOMAIN bpy.cameras) >= 1

\* C24 -- authoring a clip writes keys only into that clip: the curves
\* (keys, values and interpolation) of every clip authored earlier in the run
\* are, after each later clip is authored and for the rest of the run, what
\* authoring that clip alone on the rest skeleton produces.
C24_LaterClipsLeaveEarlierClipsAlone ==
  \A ci \in 1..Len(clip_actions) :
    LET c == Clips(gen)[ci]
        rest == [b \in BoneNames(ArmatureBones(bpy, arm_obj)) |-> RestPoseBone]
        alone == bake_keyframes([ok |-> TRUE, pose |-> rest, fcurves |-> << >>], c.keyframes)
    IN clip_actions[ci] \in DOMAIN bpy.actions
         => bpy.actions[clip_actions[ci]].fcurves = set_interpolation(alone.fcurves, c.interpolation)

\* Walk, Attack and Die authored, with different interpolation for Walk and
\* a later clip, and a frame keyed in all three
C24_Witness ==
  /\ Len(clip_actions) = 3
  /\ \E b \in DOMAIN bpy.pose, f \in 1..40 :
       LET w == bpy.actions[clip_actions[1]].fcurves[<<b, "rotation_euler">>]
           a == bpy.actions[clip_actions[2]].fcurves[<<b, "rotation_euler">>]
           d == bpy.actions[clip_actions[3]].fcurves[<<b, "rotation_euler">>]
       IN /\ f \in DOMAIN w /\ f \in DOMAIN a /\ f \in DOMAIN d
          /\ w[f].co # a[f].co /\ a[f].co # d[f].co
          /\ w[f].interpolation # a[f].interpolation

\* the left and right leg bones of the skeletons (per actor in the two-goblin
\* cannoneer skeleton)
LegPairs ==
  UpperLegPairs \cup { <<"L_LowerLeg", "R_LowerLeg">>,
                       <<"A_L_LowerLeg", "A_R_LowerLeg">>,
                       <<"B_L_LowerLeg", "B_R_LowerLeg">> }

\* C25 -- in every authored walk cycle, what the keyframe at frame 19 sets
\* for a leg bone is what the keyframe at frame 7 sets for the leg bone of the
\* other side, and the baked Walk clip shows it: each leg's keys at frame 19
\* hold the values set for the opposite leg at frame 7.
C25_WalkFrame19MirrorsFrame7 ==
  \A ci \in 1..Len(clip_actions) :
    Clips(gen)[ci].name = "Walk" =>
      LET c == Clips(gen)[ci]
          fc == bpy.actions[clip_actions[ci]].fcurves
          k7 == c.keyframes[CHOOSE j \in 1..Len(c.keyframes) : c.keyframes[j].frame = 7]
          k19 == c.keyframes[CHOOSE j \in 1..Len(c.keyframes) : c.keyframes[j].frame = 19]
          set7(b, path) == Overrides(k7, b, path)
          baked(vals, path) ==
            IF vals = << >> THEN Zero3
            ELSE IF path = "location" THEN vals[Len(vals)]
            ELSE <<radians(vals[Len(vals)][1]), radians(vals[Len(vals)][2]),
                   radians(vals[Len(vals)][3])>>
      IN /\ \E j \in 1..Len(c.keyframes) : c.keyframes[j].frame = 7
         /\ \E j \in 1..Len(c.keyframes) : c.keyframes[j].frame = 19
         /\ \A p \in LegPairs, path \in {"rotation_euler", "location"} :
              (p[1] \in DOMAIN bpy.pose /\ p[2] \in DOMAIN bpy.pose) =>
                /\ Overrides(k19, p[1], path) = set7(p[2], path)
                /\ Overrides(k19, p[2], path) = set7(p[1], path)
                /\ fc[<<p[1], path>>][19].co = baked(set7(p[2], path), path)
                /\ fc[<<p[2], path>>][19].co = baked(set7(p[1], path), path)

\* a Walk clip whose frame 7 poses the two upper legs and the two lower legs
\* differently on the two sides
C25_Witness ==
  /\ Len(clip_actions) >= 1
  /\ Clips(gen)[1].name = "Walk"
  /\ LET fc == bpy.actions[clip_actions[1]].fcurves
     IN /\ <<"L_UpperLeg", "rotation_euler">> \in DOMAIN fc
        /\ fc[<<"L_UpperLeg", "rotation_euler">>][7].co # fc[<<"R_UpperLeg", "rotation_euler">>][7].co
        /\ fc[<<"L_LowerLeg", "rotation_euler">>][7].co # fc[<<"R_LowerLeg", "rotation_euler">>][7].co
        /\ fc[<<"L_UpperLeg", "rotation_euler">>][19].co = fc[<<"R_UpperLeg", "rotation_euler">>][7].co
        /\ fc[<<"R_LowerLeg", "rotation_euler">>][19].co = fc[<<"L_LowerLeg", "rotation_euler">>][7].co

\* C26 -- a Reset purges the unreferenced meshes before the unreferenced
\* materials, so the materials that were used only by meshes of the deleted
\* objects go in that same Reset: right after a Reset the session holds no
\* mesh and no material, and at any time of a run whose Reset was carried
\* out every mesh and every material of the session was made by that run.
C26_ResetLeavesNoMaterialBehind ==
  /\ stage = "materials" => DOMAIN bpy.meshes = {} /\ DOMAIN bpy.materials = {}
  /\ ~(stage = "aborted" /\ err = "RuntimeError") =>
       /\ \A m \in DOMAIN bpy.meshes : bpy.meshes[m].born = run
       /\ \A m \in DOMAIN bpy.materials : bpy.materials[m].born = run

\* a Reset that has just run in a session where the previous run had left at
\* least five materials and ten parts
C26_Witness ==
  /\ run = 2
  /\ stage = "materials"
  /\ prev.materials >= 5
  /\ prev.parts >= 10
  /\ DOMAIN bpy.materials = {}

\* C27 -- in every animated generator Walk is the first clip authored and
\* Attack and Die are authored only after it: only Walk's clip function
\* creates the animation data of the skeleton, the skeleton has animation
\* data exactly once a clip has been authored, the first clip authored is
\* Walk, and no clip function ever fails for want of animation data.
C27_WalkIsAuthoredFirst ==
  Clips(gen) # << >> =>
    /\ Clips(gen)[1].name = "Walk"
    /\ Clips(gen)[1].creates_animation_data
    /\ \A i \in 2..Len(Clips(gen)) :
         /\ Clips(gen)[i].name \in {"Attack", "Die"}
         /\ ~Clips(gen)[i].creates_animation_data
    /\ stage = "anim" => (bpy.animation_data.exists <=> clip_actions # << >>)
    /\ clip_actions # << >> => clip_actions[1].b = "Walk"
    /\ \A i \in 1..Len(clip_actions) :
         clip_actions[i].b \in {"Attack", "Die"} => i > 1 /\ bpy.animation_data.exists
    /\ err # "AttributeError"

\* Walk, Attack and Die authored in that order on a skeleton that has
\* animation data
C27_Witness ==
  /\ stage = "tracks"
  /\ Len(clip_actions) = 3
  /\ clip_actions[1].b = "Walk"
  /\ clip_actions[2].b = "Attack"
  /\ clip_actions[3].b = "Die"
  /\ bpy.animation_data.exists

\* C28 -- once the export step of the goblin cannoneer has cleared the
\* skeleton's active clip and removed all of its tracks, every clip the
\* generator authored (Walk, Attack, Die) still exists in the session, with
\* its keys, and was in the session when the file was written.
C28_ClipsSurviveExportCleanup ==
  (/\ stage = "exported" /\ gen = "goblin_cannoneer" /\ fbx.written
   /\ bpy.animation_data.action = NoName
   /\ bpy.animation_data.nla_tracks = << >>) =>
    /\ {clip_actions[i].b : i \in 1..Len(clip_actions)} = {"Walk", "Attack", "Die"}
    /\ \A i \in 1..Len(clip_actions) :
         /\ clip_actions[i] \in DOMAIN bpy.actions
         /\ bpy.actions[clip_actions[i]].fcurves # << >>
         /\ clip_actions[i] \in fbx.actions

\* the cannoneer export has run to its end in a session brought back to
\* Object mode: no active clip, no track, and the three clips are there
C28_Witness ==
  /\ stage = "exported" /\ gen = "goblin_cannoneer" /\ fbx.written
  /\ bpy.mode = "OBJECT"
  /\ bpy.animation_data.exists
  /\ bpy.animation_data.action = NoName
  /\ bpy.animation_data.nla_tracks = << >>
  /\ Len(clip_actions) = 3
  /\ \A i \in 1..Len(clip_actions) : clip_actions[i] \in DOMAIN bpy.actions

\* C29 -- the preview renderer chooses the animation by strict priority: the
\* clip of the soloed track if a track is soloed (and holds a clip), otherwise
\* the skeleton's active clip if one is assigned, otherwise the clip of the
\* first unmuted track (that holds one); when none of these exists it reports
\* an error and returns with every render setting as it was and no frame
\* rendered, and when one exists it renders that clip.
C29_PreviewPicksByStrictPriority ==
  LET ts == render.tracks
      Soloed == {i \in 1..Len(ts) : ts[i].is_solo /\ ts[i].strips # << >>}
      Unmuted == {i \in 1..Len(ts) : ~ts[i].mute /\ ts[i].strips # << >>}
      active == render.action.name # NoName
      strip_of(i) == ts[i].strips[1]
      found == render.armature /\ (Soloed # {} \/ active \/ Unmuted # {})
  IN render.ran =>
       /\ (render.armature /\ Soloed # {}) =>
            /\ render.chosen.name = strip_of(Min(Soloed)).action
            /\ render.chosen.start = int(strip_of(Min(Soloed)).frame_start)
            /\ render.chosen.end = int(strip_of(Min(Soloed)).frame_end)
       /\ (render.armature /\ Soloed = {} /\ active) =>
            /\ render.chosen.name = render.action.name
            /\ render.chosen.start = int(render.action.frame_range[1])
            /\ render.chosen.end = int(render.action.frame_range[2])
       /\ (render.armature /\ Soloed = {} /\ ~active /\ Unmuted # {}) =>
            /\ render.chosen.name = strip_of(Min(Unmuted)).action
            /\ render.chosen.start = int(strip_of(Min(Unmuted)).frame_start)
            /\ render.chosen.end = int(strip_of(Min(Unmuted)).frame_end)
       /\ ~found =>
            /\ render.chosen = NoAnimation
            /\ render.printed = <<"ERROR">>
            /\ render.scene = UntouchedScene
            /\ render.frames = << >>
            /\ render.files = {}
       /\ found =>
            /\ render.scene.resolution_x = RESOLUTION_X
            /\ render.scene.resolution_y = RESOLUTION_Y
            /\ render.files # {}
            /\ \A f \in render.files : f.name = safe_name(render.chosen.name)

\* the renderer run on a skeleton whose second track is soloed (and muted)
\* while the first track is unmuted and an active clip is assigned: it
\* rendered the clip of the soloed track
C29_Witness ==
  /\ render.ran
  /\ Len(render.tracks) = 2
  /\ render.tracks[2].is_solo
  /\ render.tracks[2].mute
  /\ ~render.tracks[1].mute
  /\ render.tracks[1].strips # << >>
  /\ render.action.name # NoName
  /\ render.chosen.name = [b |-> "Attack", n |-> 0]
  /\ render.files # {}

\* C30 -- for any animation frame range with start <= end, the list of frames
\* the preview renderer renders begins with the start frame, ends with the
\* end frame, is strictly increasing (so without duplicate), has consecutive
\* frames at most 5 apart, and one file is written per frame of the list.
C30_FramesCoverRangeInStepsOfFive ==
  (render.ran /\ render.chosen.name # NoName /\ render.chosen.start <= render.chosen.end) =>
    LET F == render.frames
    IN /\ Len(F) >= 1
       /\ F[1] = render.chosen.start
       /\ F[Len(F)] = render.chosen.end
       /\ \A i \in 1..(Len(F) - 1) : F[i] < F[i + 1] /\ F[i + 1] - F[i] <= 5
       /\ {f.frame : f \in render.files} = {F[i] : i \in 1..Len(F)}
       /\ Cardinality(render.files) = Len(F)

\* a range that does not end on a step rendered: 1, 6, 11 and the end, 12
C30_Witness ==
  /\ render.ran
  /\ render.chosen.start = 1
  /\ render.chosen.end = 12
  /\ render.frames = <<1, 6, 11, 12>>
  /\ Cardinality(render.files) = 4

====
